---------------------------- MODULE Spec2Model ----------------------------
(***************************************************************************)
(* The actions-suggestions engine of libtextclassifier                     *)
(* (actions/actions-suggestions.cc): the gating pipeline of                *)
(* ActionsSuggestions::SuggestActions and the helpers it calls.            *)
(*                                                                         *)
(* One request is modelled from the construction of its response to the   *)
(* value SuggestActions returns.  The model configuration (model_) and     *)
(* the conversation are the inputs; they are drawn in Init and never       *)
(* change.  External collaborators (the TensorFlow Lite interpreter, the   *)
(* ranker) are nondeterministic choices over the results their interfaces  *)
(* allow.                                                                  *)
(*                                                                         *)
(* Scores are floats in the source; the model uses tenths as integers      *)
(* (5 stands for 0.5).  min_locale_match_fraction is modelled in quarters  *)
(* (2 stands for 0.5): quarters are exact in binary floating point, so     *)
(* the float comparison of line 687 agrees with the integer comparison.    *)
(***************************************************************************)
EXTENDS Integers, Sequences, FiniteSets, TLC

VARIABLES
    model_,                 \* the verified ActionsModel (configuration)
    low_confidence_rules_,  \* compiled low-confidence rules
    rules_,                 \* compiled primary rules
    conversation,           \* the request: a sequence of messages
    pc,                     \* position inside SuggestActions
    num_messages,           \* local of GatherActionsSuggestions
    response,               \* the ActionsSuggestionsResponse being built
    gather_result,          \* return value of GatherActionsSuggestions
    rank_result,            \* return value of RankActions
    stopped_at,             \* history: the return statement Gather left by
    calls,                  \* history: how often each collaborator ran
    locale_call,            \* the last call of the locale matcher
    relaxed_call,           \* that call repeated after one replacement
    apc,                    \* position inside the annotation pass
    candidates,             \* the candidates of the annotation pass
    annotation_ids,         \* result of DeduplicateAnnotations
    annotator,              \* the caller's annotator and its use
    requests,               \* the rule passes of concurrent requests
    matcher,                \* the cursor of each regex matcher in use
    model_buffer,           \* the buffer handed to the factory
    engine,                 \* what the factory returned
    nodes_,                 \* the node array of the trie
    trie_call,              \* the last call of the trie
    fields_,                \* the stored values of a reflective record
    set_call,               \* the last Set call on the record
    model_call              \* the last exchange with the scoring model

\* The variables of a request that only a request uses.
request_vars == <<low_confidence_rules_, rules_, pc, num_messages,
                  gather_result, rank_result, stopped_at, calls>>

\* The variables of the locale matcher's calls.
locale_vars == <<locale_call, relaxed_call>>

\* The variables of the annotation pass taken alone.
annotation_vars == <<apc, candidates, annotation_ids, annotator>>

\* The variables of the rule pass taken alone.
rule_vars == <<requests, matcher>>

\* The variables of initialization.
factory_vars == <<model_buffer, engine>>

\* The variables of the trie.
trie_vars == <<nodes_, trie_call>>

\* The variables of the components that are also exercised on their own.
\* The variables of the reflective record.
record_vars == <<fields_, set_call>>

component_vars ==
    <<rule_vars, factory_vars, trie_vars, record_vars, model_call>>

\* What a request leaves alone.
outside_request == <<locale_vars, annotation_vars, component_vars>>

vars == <<model_, low_confidence_rules_, rules_, conversation, pc,
          num_messages, response, gather_result, rank_result, stopped_at,
          calls, locale_call, relaxed_call, apc, candidates,
          annotation_ids, annotator, requests, matcher, model_buffer,
          engine, nodes_, trie_call, fields_, set_call, model_call>>

(***************************************************************************)
(* Bounds of the model.                                                    *)
(***************************************************************************)
MaxMessages == 2
MaxModelLocales == 2
MaxMessageLocales == 2
MaxAnnotations == 3

(***************************************************************************)
(* The locale matcher and the annotation pass are also exercised on their  *)
(* own (LocaleSpec, AnnotationSpec); during a request their variables      *)
(* rest, and during their runs the variables of the request rest.          *)
(***************************************************************************)
NoLocaleCall ==
    [fn |-> "none", locales |-> <<>>, locale |-> <<>>,
     message_locales |-> <<>>, result |-> FALSE]

NoReplacement ==
    [side |-> "none", index |-> 0, component |-> "none", value |-> "",
     locales |-> <<>>, locale |-> <<>>, result |-> FALSE]

LocaleIdle ==
    /\ locale_call = NoLocaleCall
    /\ relaxed_call = NoReplacement

\* const Annotator* annotator = nullptr, never called.  The fields `calls`
\* and `annotations` are history: how often Annotate ran and what it
\* returned.
NoAnnotator == [supplied |-> FALSE, calls |-> 0, annotations |-> <<>>]

AnnotationIdle ==
    /\ apc = "idle"
    /\ candidates = <<>>
    /\ annotation_ids = <<>>
    /\ annotator = NoAnnotator

RuleIdle ==
    /\ requests = <<>>
    /\ matcher = <<>>

FactoryIdle ==
    /\ model_buffer = [verifies |-> FALSE]
    /\ engine = [pc |-> "idle"]

\* TrieMatch(): the default-constructed match.
NoTrieMatch == [id |-> -1, match_length |-> -1]

\* No call of the trie yet.  `emitted`, `stop` and `at_length` are history
\* of the traversal of the call.  `ok` says that the call returned true; a
\* call with stop "killed" did not return at all: the process was killed
\* in the read past the node array.
NoTrieCall ==
    [fn |-> "none", input |-> <<>>, ok |-> FALSE, matches |-> <<>>,
     longest_match |-> NoTrieMatch, emitted |-> <<>>, stop |-> "none",
     at_length |-> {}]

TrieIdle ==
    /\ nodes_ = <<>>
    /\ trie_call = NoTrieCall

\* No Set call on the record yet.  `before` is the stored values when the
\* call was made.
NoSetCall ==
    [n |-> 0, field_name |-> "none", value |-> [type |-> "none", v |-> 0],
     ok |-> FALSE, before |-> <<>>]

RecordIdle ==
    /\ fields_ = <<>>
    /\ set_call = NoSetCall

\* No exchange with the scoring model.
ModelCallIdle == model_call = [fn |-> "none"]

ComponentsIdle ==
    RuleIdle /\ FactoryIdle /\ TrieIdle /\ RecordIdle /\ ModelCallIdle

(***************************************************************************)
(* Generic helpers.                                                        *)
(***************************************************************************)
RECURSIVE SumSeq(_)
SumSeq(s) == IF s = <<>> THEN 0 ELSE Head(s) + SumSeq(Tail(s))

RECURSIVE Concat(_)
Concat(ss) == IF ss = <<>> THEN <<>> ELSE Head(ss) \o Concat(Tail(ss))

SeqsUpTo(S, n) == UNION {[1..k -> S] : k \in 0..n}

(***************************************************************************)
(* Regular expressions (UniLib::RegexPattern / RegexMatcher).  A pattern   *)
(* is one literal character; its successive non-overlapping matches on a   *)
(* text are the occurrences of that character, left to right.  A pattern   *)
(* with overflows = TRUE stands for a pattern whose matcher reports an     *)
(* error status (kError) instead of a match whenever it would match.       *)
(***************************************************************************)
kNoError == "kNoError"
kError == "kError"

\* UniLib::RegexMatcher::Find from cursor position `from` (1-based, the
\* position after the previous match): found, status, and the position of
\* the match.
Find(pattern, text, from) ==
    LET hits == {i \in from..Len(text) : text[i] = pattern.ch}
    IN  IF hits = {}
        THEN [found |-> FALSE, status |-> kNoError, at |-> 0]
        ELSE LET i == CHOOSE j \in hits : \A k \in hits : j <= k
             IN  IF pattern.overflows
                 THEN [found |-> FALSE, status |-> kError, at |-> i]
                 ELSE [found |-> TRUE, status |-> kNoError, at |-> i]

(***************************************************************************)
(* Locales (ActionsSuggestions::IsLocaleSupportedByModel and               *)
(* IsAnyLocaleSupportedByModel).                                           *)
(***************************************************************************)
kAnyMatch == "*"

MkLocale(l, s, r) ==
    [valid |-> TRUE, unknown |-> FALSE, language |-> l, script |-> s,
     region |-> r]

\* Faulty variant: an empty candidate language matches like an empty
\* candidate script or region does.
IsLocaleSupportedByModel_LanguageRelaxed(m, locales, locale) ==
    IF ~locale.valid THEN FALSE
    ELSE IF locale.unknown THEN m.handle_unknown_locale_as_supported
    ELSE \E i \in 1..Len(locales) :
            LET model_locale == locales[i]
                language_matches ==
                    \/ model_locale.language = ""
                    \/ model_locale.language = kAnyMatch
                    \/ locale.language = ""
                    \/ model_locale.language = locale.language
                script_matches ==
                    \/ model_locale.script = ""
                    \/ model_locale.script = kAnyMatch
                    \/ locale.script = ""
                    \/ model_locale.script = locale.script
                region_matches ==
                    \/ model_locale.region = ""
                    \/ model_locale.region = kAnyMatch
                    \/ locale.region = ""
                    \/ model_locale.region = locale.region
            IN  /\ model_locale.valid
                /\ language_matches /\ script_matches /\ region_matches

\* Faulty variant: the wildcard is not recognised in the model's region.
IsLocaleSupportedByModel_NoRegionWildcard(m, locales, locale) ==
    IF ~locale.valid THEN FALSE
    ELSE IF locale.unknown THEN m.handle_unknown_locale_as_supported
    ELSE \E i \in 1..Len(locales) :
            LET model_locale == locales[i]
                language_matches ==
                    \/ model_locale.language = ""
                    \/ model_locale.language = kAnyMatch
                    \/ model_locale.language = locale.language
                script_matches ==
                    \/ model_locale.script = ""
                    \/ model_locale.script = kAnyMatch
                    \/ locale.script = ""
                    \/ model_locale.script = locale.script
                region_matches ==
                    \/ model_locale.region = ""
                    \/ locale.region = ""
                    \/ model_locale.region = locale.region
            IN  /\ model_locale.valid
                /\ language_matches /\ script_matches /\ region_matches

IsLocaleSupportedByModel(m, locales, locale) ==
    IF ~locale.valid THEN FALSE
    ELSE IF locale.unknown THEN m.handle_unknown_locale_as_supported
    ELSE \E i \in 1..Len(locales) :
            LET model_locale == locales[i]
                language_matches ==
                    \/ model_locale.language = ""
                    \/ model_locale.language = kAnyMatch
                    \/ model_locale.language = locale.language
                script_matches ==
                    \/ model_locale.script = ""
                    \/ model_locale.script = kAnyMatch
                    \/ locale.script = ""
                    \/ model_locale.script = locale.script
                region_matches ==
                    \/ model_locale.region = ""
                    \/ model_locale.region = kAnyMatch
                    \/ locale.region = ""
                    \/ model_locale.region = locale.region
            IN  /\ model_locale.valid
                /\ language_matches /\ script_matches /\ region_matches

\* Faulty variant: the empty list is decided by the flag for unknown
\* locales.
IsAnyLocaleSupportedByModel_WrongFlag(m, locales, message_locales) ==
    IF message_locales = <<>>
    THEN m.handle_unknown_locale_as_supported
    ELSE \E i \in 1..Len(message_locales) :
            IsLocaleSupportedByModel(m, locales, message_locales[i])

IsAnyLocaleSupportedByModel(m, locales, message_locales) ==
    IF message_locales = <<>>
    THEN m.handle_missing_locale_as_supported
    ELSE \E i \in 1..Len(message_locales) :
            IsLocaleSupportedByModel(m, locales, message_locales[i])


(***************************************************************************)
(* Texts are sequences of characters.  std::string / std::pair comparison  *)
(* (the key order of the std::map in DeduplicateAnnotations) is            *)
(* lexicographic.                                                          *)
(***************************************************************************)
CharRank(c) == CASE c = "a" -> 1 [] c = "b" -> 2 [] OTHER -> 3

RECURSIVE TextLess(_, _)
TextLess(s, t) ==
    IF t = <<>> THEN FALSE
    ELSE IF s = <<>> THEN TRUE
    ELSE IF Head(s) # Head(t) THEN CharRank(Head(s)) < CharRank(Head(t))
    ELSE TextLess(Tail(s), Tail(t))

\* Collection names, in std::string order.
CollectionRank(c) == CASE c = "date" -> 1 [] c = "phone" -> 2 [] OTHER -> 3

KeyLess(k1, k2) ==
    \/ CollectionRank(k1[1]) < CollectionRank(k2[1])
    \/ k1[1] = k2[1] /\ TextLess(k1[2], k2[2])

\* UnicodeText::UTF8Substring(first, second): code points [first, second).
UTF8Substring(text, first, second) == SubSeq(text, first + 1, second)

(***************************************************************************)
(* The response and its actions.  The field `origin` is a history field:   *)
(* it records which pass appended the action and is not read by the code.  *)
(***************************************************************************)
NoScore == -1

\* ActionsSuggestionsResponse response;  (default-constructed)
DefaultResponse ==
    [actions |-> <<>>,
     sensitivity_score |-> NoScore,
     triggering_score |-> NoScore,
     output_filtered_sensitivity |-> FALSE,
     output_filtered_min_triggering_score |-> FALSE,
     output_filtered_locale_mismatch |-> FALSE,
     output_filtered_low_confidence |-> FALSE]

ActionSuggestion(text, type, score, annotations, entity_data, origin) ==
    [response_text |-> text, type |-> type, score |-> score,
     annotations |-> annotations, serialized_entity_data |-> entity_data,
     origin |-> origin]

(***************************************************************************)
(* Annotation mapper (SuggestActionsFromAnnotations,                        *)
(* DeduplicateAnnotations, CreateActionsFromAnnotation).                   *)
(***************************************************************************)
\* Faulty variant: the candidate is made from the last classification of
\* the annotation.
RECURSIVE ActionAnnotations_LastClassification(_, _, _)
ActionAnnotations_LastClassification(annotations, text, message_index) ==
    IF annotations = <<>> THEN <<>>
    ELSE LET annotation == Head(annotations)
             rest == ActionAnnotations_LastClassification(
                         Tail(annotations), text, message_index)
             last == Len(annotation.classification)
         IN  IF annotation.classification = <<>> THEN rest
             ELSE <<[message_index |-> message_index,
                     span |-> annotation.span,
                     entity |-> annotation.classification[last],
                     name |-> annotation.classification[last].collection,
                     text |-> UTF8Substring(text, annotation.span[1],
                                            annotation.span[2])]>> \o rest

\* Lines 474-492: one candidate per annotation with a classification, from
\* its first classification.
RECURSIVE ActionAnnotations(_, _, _)
ActionAnnotations(annotations, text, message_index) ==
    IF annotations = <<>> THEN <<>>
    ELSE LET annotation == Head(annotations)
             rest == ActionAnnotations(Tail(annotations), text, message_index)
         IN  IF annotation.classification = <<>> THEN rest
             ELSE <<[message_index |-> message_index,
                     span |-> annotation.span,
                     entity |-> annotation.classification[1],
                     name |-> annotation.classification[1].collection,
                     text |-> UTF8Substring(text, annotation.span[1],
                                            annotation.span[2])]>> \o rest

\* Faulty variant: a later candidate with an equal score replaces the
\* representative too.
RECURSIVE DeduplicateFold_LastWinsOnTie(_, _, _)
DeduplicateFold_LastWinsOnTie(annotations, i, deduplicated) ==
    IF i > Len(annotations) THEN deduplicated
    ELSE LET key == <<annotations[i].name, annotations[i].text>>
         IN  IF key \in DOMAIN deduplicated
             THEN IF annotations[deduplicated[key]].entity.score <=
                         annotations[i].entity.score
                  THEN DeduplicateFold_LastWinsOnTie(
                           annotations, i + 1,
                           [deduplicated EXCEPT ![key] = i])
                  ELSE DeduplicateFold_LastWinsOnTie(annotations, i + 1,
                                                     deduplicated)
             ELSE DeduplicateFold_LastWinsOnTie(
                      annotations, i + 1, deduplicated @@ (key :> i))

\* Lines 512-525: the std::map from key to the index of its representative.
RECURSIVE DeduplicateFold(_, _, _)
DeduplicateFold(annotations, i, deduplicated) ==
    IF i > Len(annotations) THEN deduplicated
    ELSE LET key == <<annotations[i].name, annotations[i].text>>
         IN  IF key \in DOMAIN deduplicated
             THEN IF annotations[deduplicated[key]].entity.score <
                         annotations[i].entity.score
                  THEN DeduplicateFold(annotations, i + 1,
                                       [deduplicated EXCEPT ![key] = i])
                  ELSE DeduplicateFold(annotations, i + 1, deduplicated)
             ELSE DeduplicateFold(annotations, i + 1,
                                  deduplicated @@ (key :> i))

\* Lines 527-532: the map's values, in key order.
RECURSIVE MapValuesInKeyOrder(_, _)
MapValuesInKeyOrder(map, keys) ==
    IF keys = {} THEN <<>>
    ELSE LET k == CHOOSE x \in keys : \A y \in keys \ {x} : KeyLess(x, y)
         IN  <<map[k]>> \o MapValuesInKeyOrder(map, keys \ {k})

\* Faulty variant: the result starts at the map's second entry.
DeduplicateAnnotations_SkipsFirst(annotations) ==
    LET deduplicated == DeduplicateFold(annotations, 1, <<>>)
        result == MapValuesInKeyOrder(deduplicated, DOMAIN deduplicated)
    IN  IF result = <<>> THEN <<>> ELSE Tail(result)

DeduplicateAnnotations(annotations) ==
    LET deduplicated == DeduplicateFold(annotations, 1, <<>>)
    IN  MapValuesInKeyOrder(deduplicated, DOMAIN deduplicated)

\* Faulty variant: the loop over the mapping table ends at the first entry
\* that gives an action.
RECURSIVE CreateActionsFromAnnotation_FirstMatchOnly(_, _)
CreateActionsFromAnnotation_FirstMatchOnly(mappings, annotation) ==
    IF mappings = <<>> THEN <<>>
    ELSE LET mapping == Head(mappings)
         IN  IF /\ annotation.entity.collection = mapping.annotation_collection
                /\ ~(annotation.entity.score < mapping.min_annotation_score)
             THEN <<ActionSuggestion(
                      <<>>, mapping.action.type,
                      IF mapping.use_annotation_score
                      THEN annotation.entity.score ELSE mapping.action.score,
                      <<annotation>>,
                      mapping.action.serialized_entity_data,
                      "annotation")>>
             ELSE CreateActionsFromAnnotation_FirstMatchOnly(
                      Tail(mappings), annotation)

\* Lines 538-563: the actions one candidate produces, in mapping order.
RECURSIVE CreateActionsFromAnnotation(_, _)
CreateActionsFromAnnotation(mappings, annotation) ==
    IF mappings = <<>> THEN <<>>
    ELSE LET mapping == Head(mappings)
             rest == CreateActionsFromAnnotation(Tail(mappings), annotation)
         IN  IF /\ annotation.entity.collection = mapping.annotation_collection
                /\ ~(annotation.entity.score < mapping.min_annotation_score)
             THEN <<ActionSuggestion(
                      <<>>, mapping.action.type,
                      IF mapping.use_annotation_score
                      THEN annotation.entity.score ELSE mapping.action.score,
                      <<annotation>>,
                      mapping.action.serialized_entity_data,
                      "annotation")>> \o rest
             ELSE rest

\* Faulty variant: the candidates are deduplicated whatever the setting.
SuggestActionsFromAnnotations_AlwaysDeduplicates(m, conv) ==
    IF m.annotation_mapping = <<>> THEN <<>>
    ELSE LET last == conv[Len(conv)]
             action_annotations ==
                 ActionAnnotations(last.annotations, last.text, Len(conv) - 1)
             ids == DeduplicateAnnotations(action_annotations)
         IN  Concat([j \in 1..Len(ids) |->
                        CreateActionsFromAnnotation(
                            m.annotation_mapping, action_annotations[ids[j]])])

\* Lines 455-506, for a request without annotator (line 733 passes nullptr):
\* the actions the annotation pass appends.
SuggestActionsFromAnnotations(m, conv) ==
    IF m.annotation_mapping = <<>> THEN <<>>
    ELSE LET last == conv[Len(conv)]
             action_annotations ==
                 ActionAnnotations(last.annotations, last.text, Len(conv) - 1)
             ids == IF m.deduplicate_annotations
                    THEN DeduplicateAnnotations(action_annotations)
                    ELSE [i \in 1..Len(action_annotations) |-> i]
         IN  Concat([j \in 1..Len(ids) |->
                        CreateActionsFromAnnotation(
                            m.annotation_mapping, action_annotations[ids[j]])])

(***************************************************************************)
(* Scoring model (SuggestActionsFromModel, ReadModelOutput).  `outcome`    *)
(* is what the TensorFlow Lite interpreter did on this request: which      *)
(* step failed, if any, and the output tensors it produced.                *)
(***************************************************************************)
DefaultOptions == [ignore_min_replies_triggering_threshold |-> FALSE]

\* Lines 356-370: one action per reply with non-empty text.
RECURSIVE SmartReplies(_, _)
SmartReplies(m, replies) ==
    IF replies = <<>> THEN <<>>
    ELSE IF Len(Head(replies).text) = 0 THEN SmartReplies(m, Tail(replies))
    ELSE <<ActionSuggestion(Head(replies).text, m.smart_reply_action_type,
                            Head(replies).score, <<>>, <<>>, "model")>>
         \o SmartReplies(m, Tail(replies))

\* A class that triggers only above its minimum.
ClassTriggers_AboveMinimum(action_type, score) ==
    action_type.enabled /\ score > action_type.min_triggering_score

\* Lines 378-385: a class is skipped when it is disabled or its score is
\* below its minimum.
ClassTriggers(action_type, score) ==
    /\ action_type.enabled
    /\ ~(score < action_type.min_triggering_score)

\* Lines 373-389: one action per enabled class whose score reaches its
\* minimum.
RECURSIVE ActionClasses(_, _, _)
ActionClasses(m, actions_scores, i) ==
    IF i > Len(m.action_type) THEN <<>>
    ELSE IF ~ClassTriggers(m.action_type[i], actions_scores[i])
         THEN ActionClasses(m, actions_scores, i + 1)
         ELSE <<ActionSuggestion(<<>>, m.action_type[i].name,
                                 actions_scores[i], <<>>, <<>>, "model")>>
              \o ActionClasses(m, actions_scores, i + 1)

ReadModelOutput(m, options, out, resp) ==
    LET spec == m.tflite_model_spec
        r1 == IF spec.output_triggering_score
              THEN [resp EXCEPT
                      !.triggering_score = out.triggering_score.value,
                      !.output_filtered_min_triggering_score =
                          /\ ~options.ignore_min_replies_triggering_threshold
                          /\ out.triggering_score.value <
                                 m.min_smart_reply_triggering_score]
              ELSE resp
        r2 == IF spec.output_sensitive_topic_score
              THEN [r1 EXCEPT
                      !.sensitivity_score = out.sensitive_topic_score.value,
                      !.output_filtered_sensitivity =
                          out.sensitive_topic_score.value >
                              m.max_sensitive_topic_score]
              ELSE r1
        replies == IF /\ ~r2.output_filtered_min_triggering_score
                      /\ spec.output_replies
                   THEN SmartReplies(m, out.replies) ELSE <<>>
        classes == IF spec.output_actions_scores
                   THEN ActionClasses(m, out.actions_scores, 1) ELSE <<>>
    IN  IF spec.output_triggering_score /\ ~out.triggering_score.valid
        THEN resp
        ELSE IF spec.output_sensitive_topic_score
                /\ ~out.sensitive_topic_score.valid
        THEN r1
        ELSE IF r2.output_filtered_sensitivity
        THEN r2
        ELSE [r2 EXCEPT !.actions = @ \o replies \o classes]

\* Lines 392-453.  The interpreter is invoked (line 447) only when the
\* executor exists, the interpreter was built and its tensors allocated.
InterpreterInvoked(m, outcome) ==
    m.has_model_executor /\ outcome.kind \in {"invoke_failed", "ok"}

\* Faulty variant: the output is read whether or not there is an executor.
SuggestActionsFromModel_WithoutExecutor(m, options, outcome, resp) ==
    IF outcome.kind \in {"no_interpreter", "allocate_failed",
                         "invoke_failed"} THEN resp
    ELSE ReadModelOutput(m, options, outcome, resp)

\* Lines 392-453: nothing is read without an executor, an interpreter,
\* its tensors or a successful invocation.
SuggestActionsFromModel(m, options, outcome, resp) ==
    IF ~m.has_model_executor THEN resp
    ELSE IF outcome.kind \in {"no_interpreter", "allocate_failed",
                              "invoke_failed"} THEN resp
    ELSE ReadModelOutput(m, options, outcome, resp)

(***************************************************************************)
(* Reflective record (ReflectiveFlatbuffer) and the rule pass              *)
(* (HasEntityData, SuggestActionsFromRules).  A record is the map fields_  *)
(* from field name to typed value; a serialized record is the one-element  *)
(* sequence holding that map, and the empty sequence is the empty string.  *)
(***************************************************************************)
StringValue(text) == [type |-> "String", v |-> text]

\* Variant(int) and Variant(bool): the other value types used here.
IntValue(n) == [type |-> "Int", v |-> n]

BoolValue(b) == [type |-> "Bool", v |-> b]

\* GetFieldOrNull(field_name): the field of the schema with that name, or
\* none.
GetFieldOrNull(schema, field_name) ==
    IF field_name \in DOMAIN schema THEN <<field_name>> ELSE <<>>

\* IsMatchingType(field, value): the value's type is the field's base type.
IsMatchingType(schema, field, value) == schema[field] = value.type

\* A Set that stores the value before it looks at its type.
Set_StoresBeforeTypeCheck(schema, fields, field_name, value) ==
    IF GetFieldOrNull(schema, field_name) = <<>>
    THEN [ok |-> FALSE, fields |-> fields]
    ELSE [ok |-> IsMatchingType(schema, field_name, value),
          fields |-> [f \in DOMAIN fields \cup {field_name} |->
                         IF f = field_name THEN value ELSE fields[f]]]

\* ReflectiveFlatbuffer::Set(field_name, value).
Set(schema, fields, field_name, value) ==
    IF GetFieldOrNull(schema, field_name) = <<>>
    THEN [ok |-> FALSE, fields |-> fields]
    ELSE IF ~IsMatchingType(schema, field_name, value)
    THEN [ok |-> FALSE, fields |-> fields]
    ELSE [ok |-> TRUE,
          fields |-> [f \in DOMAIN fields \cup {field_name} |->
                         IF f = field_name THEN value ELSE fields[f]]]

\* SetFieldFromCapturingGroup (utils/regex-match): an empty group leaves the
\* field unset; otherwise the group text is stored with Set.
SetFieldFromCapturingGroup(schema, group, group_text, fields) ==
    IF group_text = <<>> THEN [ok |-> TRUE, fields |-> fields]
    ELSE Set(schema, fields, group.entity_field, StringValue(group_text))

RECURSIVE SetCapturingGroups(_, _, _, _)
SetCapturingGroups(schema, groups, group_text, fields) ==
    IF groups = <<>> THEN [ok |-> TRUE, fields |-> fields]
    ELSE LET r == SetFieldFromCapturingGroup(schema, Head(groups),
                                             group_text, fields)
         IN  IF ~r.ok THEN r
             ELSE SetCapturingGroups(schema, Tail(groups), group_text,
                                     r.fields)

HasEntityData(rule) ==
    \E i \in 1..Len(rule.actions) :
        \/ rule.actions[i].action.serialized_entity_data # <<>>
        \/ rule.actions[i].capturing_group # <<>>

\* Lines 590-632 for one match: ok = FALSE when a capturing group could not
\* be set; `actions` are the actions pushed before that.
RECURSIVE ActionsForMatch(_, _, _, _)
ActionsForMatch(m, rule_actions, has_entity_data, group_text) ==
    IF rule_actions = <<>> THEN [ok |-> TRUE, actions |-> <<>>]
    ELSE LET rule_action == Head(rule_actions)
             action == rule_action.action
             merged == IF action.serialized_entity_data # <<>>
                       THEN action.serialized_entity_data[1] ELSE <<>>
             built == SetCapturingGroups(m.entity_data_schema,
                                         rule_action.capturing_group,
                                         group_text, merged)
             serialized_entity_data ==
                 IF has_entity_data THEN <<built.fields>> ELSE <<>>
         IN  IF has_entity_data /\ ~built.ok
             THEN [ok |-> FALSE, actions |-> <<>>]
             ELSE LET rest == ActionsForMatch(m, Tail(rule_actions),
                                              has_entity_data, group_text)
                  IN  [ok |-> rest.ok,
                       actions |->
                           <<ActionSuggestion(action.response_text,
                                 action.type, action.score, <<>>,
                                 serialized_entity_data, "rule")>>
                           \o rest.actions]

\* Lines 589-633: the match loop of one rule, from cursor `from`.
RECURSIVE MatchLoop(_, _, _, _)
MatchLoop(m, rule, text, from) ==
    LET f == Find(rule.pattern, text, from)
    IN  IF f.found /\ f.status = kNoError
        THEN LET a == ActionsForMatch(m, rule.actions, HasEntityData(rule),
                                      <<text[f.at]>>)
             IN  IF ~a.ok THEN a
                 ELSE LET rest == MatchLoop(m, rule, text, f.at + 1)
                      IN  [ok |-> rest.ok,
                           actions |-> a.actions \o rest.actions]
        ELSE [ok |-> TRUE, actions |-> <<>>]

\* Lines 577-636: the return value and the actions appended.
RECURSIVE SuggestActionsFromRules(_, _, _)
SuggestActionsFromRules(m, rules, text) ==
    IF rules = <<>> THEN [ok |-> TRUE, actions |-> <<>>]
    ELSE LET r == MatchLoop(m, Head(rules), text, 1)
         IN  IF ~r.ok THEN r
             ELSE LET rest == SuggestActionsFromRules(m, Tail(rules), text)
                  IN  [ok |-> rest.ok, actions |-> r.actions \o rest.actions]

(***************************************************************************)
(* Gates of GatherActionsSuggestions.                                      *)
(***************************************************************************)
\* Faulty variant: a configured maximum of 0 is taken as "no clamp".
NumMessages_ZeroUnclamped(m, conv) ==
    IF \/ m.max_conversation_history_length <= 0
       \/ Len(conv) < m.max_conversation_history_length
    THEN Len(conv) ELSE m.max_conversation_history_length

\* Faulty variant: the history is never clamped.
NumMessages_NoClamp(m, conv) == Len(conv)

\* Faulty variant: a conversation shorter than the maximum is not looked
\* at, and the maximum is taken.
NumMessages_NoLengthClamp(m, conv) ==
    IF m.max_conversation_history_length < 0
    THEN Len(conv) ELSE m.max_conversation_history_length

\* Faulty variant: the comparison is reversed, and the larger of the
\* length and the maximum is taken.
NumMessages_Larger(m, conv) ==
    IF \/ m.max_conversation_history_length < 0
       \/ Len(conv) > m.max_conversation_history_length
    THEN Len(conv) ELSE m.max_conversation_history_length

\* Lines 646-653.
NumMessages(m, conv) ==
    IF \/ m.max_conversation_history_length < 0
       \/ Len(conv) < m.max_conversation_history_length
    THEN Len(conv) ELSE m.max_conversation_history_length

\* The messages the scan of lines 664-674 visits.
SelectedMessages(conv, n) == (Len(conv) - n + 1)..Len(conv)

\* Line 666.
InputTextLength(conv, n) ==
    SumSeq([k \in 1..n |-> Len(conv[Len(conv) - n + k].text)])

\* Lines 667-673: a message whose locales do not parse is skipped.
NumMatchingLocales(m, conv, n) ==
    Cardinality({i \in SelectedMessages(conv, n) :
        /\ conv[i].locales.parsed
        /\ IsAnyLocaleSupportedByModel(m, m.locales, conv[i].locales.list)})

\* Faulty variant: the lower bound is not checked.
InputLengthOutOfRange_NoMinimum(m, input_text_length) ==
    /\ m.max_input_length >= 0
    /\ input_text_length > m.max_input_length

\* Faulty variant: a maximum of 0 is taken as unbounded.
InputLengthOutOfRange_ZeroUnbounded(m, input_text_length) ==
    \/ input_text_length < m.min_input_length
    \/ /\ m.max_input_length > 0
       /\ input_text_length > m.max_input_length

\* Lines 677-679.
InputLengthOutOfRange(m, input_text_length) ==
    \/ input_text_length < m.min_input_length
    \/ /\ m.max_input_length >= 0
       /\ input_text_length > m.max_input_length

\* Faulty variant: a fraction equal to the minimum is rejected too.
LocaleMismatch_OrEqual(m, num_matching_locales, n) ==
    4 * num_matching_locales <= m.min_locale_match_fraction * n

\* Lines 685-688: static_cast<float>(num_matching_locales) / num_messages <
\* min_locale_match_fraction, the fraction being given in quarters.
LocaleMismatch(m, num_matching_locales, n) ==
    4 * num_matching_locales < m.min_locale_match_fraction * n

\* Line 690.
MarkLocaleMismatch(resp) ==
    [resp EXCEPT !.output_filtered_locale_mismatch = TRUE]

\* Faulty variant: the wrong flag is set.
MarkLowConfidence_WrongFlag(resp) ==
    [resp EXCEPT !.output_filtered_locale_mismatch = TRUE]

\* Line 696.
MarkLowConfidence(resp) ==
    [resp EXCEPT !.output_filtered_low_confidence = TRUE]

\* Faulty variant: the sensitivity gate never stops the pipeline.
SensitivitySuppressed_Never(m, resp) == FALSE

\* Lines 703-704.
SensitivitySuppressed(m, resp) ==
    m.suppress_on_sensitive_topic /\ resp.output_filtered_sensitivity

\* Faulty variant: the low-confidence rules are compiled whenever configured.
InitializeLowConfidenceRules_Always(m) ==
    IF m.low_confidence_rules.present
    THEN m.low_confidence_rules.rule ELSE <<>>

\* Lines 195-203: the low-confidence rules are compiled only when
\* suppress_on_low_confidence_input is set.
InitializeLowConfidenceRules(m) ==
    IF m.suppress_on_low_confidence_input /\ m.low_confidence_rules.present
    THEN m.low_confidence_rules.rule ELSE <<>>

\* Lines 188-193.
InitializePrimaryRules(m) ==
    IF m.rules.present THEN m.rules.rule ELSE <<>>

\* Lines 265-282.
IsLowConfidenceInput(low_confidence_rules, conv, n) ==
    \E i \in 1..n :
        \E r \in 1..Len(low_confidence_rules) :
            LET f == Find(low_confidence_rules[r].pattern,
                          conv[Len(conv) - i + 1].text, 1)
            IN  f.found /\ f.status = kNoError

(***************************************************************************)
(* Ranker (ActionsSuggestionsRanker::RankActions, declared in              *)
(* actions/ranker.h).  It filters and reorders the action list in place    *)
(* and reports success or failure.                                         *)
(***************************************************************************)
RankerOutcomes == {"fail", "keep", "filter", "reorder"}

Reverse(s) == [i \in 1..Len(s) |-> s[Len(s) + 1 - i]]

RankActions(actions, outcome) ==
    CASE outcome = "keep" -> [ok |-> TRUE, actions |-> actions]
      [] outcome = "filter" ->
            [ok |-> TRUE, actions |-> SubSeq(actions, 1, Len(actions) - 1)]
      [] outcome = "reorder" -> [ok |-> TRUE, actions |-> Reverse(actions)]
      [] OTHER -> [ok |-> FALSE, actions |-> actions]

(***************************************************************************)
(* Inputs.                                                                 *)
(***************************************************************************)
Pattern(c, overflows) == [ch |-> c, overflows |-> overflows]

ActionSpec(type, score) ==
    [type |-> type, score |-> score, response_text |-> <<>>,
     serialized_entity_data |-> <<>>]

\* A rule without entity data, and a rule that stores its match in a field.
PlainRule(c, overflows, type) ==
    [pattern |-> Pattern(c, overflows),
     actions |-> <<[action |-> ActionSpec(type, 9),
                    capturing_group |-> <<>>]>>]

CapturingRule(c, field, type) ==
    [pattern |-> Pattern(c, FALSE),
     actions |-> <<[action |-> ActionSpec(type, 7),
                    capturing_group |->
                        <<[group_id |-> 0, entity_field |-> field]>>]>>]

EntityDataSchema == [name |-> "String", count |-> "Int"]

RuleSets ==
    {[present |-> FALSE, rule |-> <<>>],
     [present |-> TRUE,
      rule |-> <<PlainRule("a", FALSE, "rule_a"),
                 CapturingRule("b", "name", "rule_b")>>],
     [present |-> TRUE,
      rule |-> <<PlainRule("a", FALSE, "rule_a"),
                 CapturingRule("b", "count", "rule_b")>>],
     [present |-> TRUE,
      rule |-> <<PlainRule("a", TRUE, "rule_a"),
                 PlainRule("b", FALSE, "rule_b")>>]}

LowConfidenceRuleSets ==
    {[present |-> FALSE, rule |-> <<>>],
     [present |-> TRUE, rule |-> <<PlainRule("b", FALSE, "low")>>]}

AnnotationMapping ==
    <<[annotation_collection |-> "date", min_annotation_score |-> 5,
       use_annotation_score |-> TRUE,
       action |-> ActionSpec("view_calendar", 6)]>>

BaseModel ==
    [max_conversation_history_length |-> -1,
     min_input_length |-> 0,
     max_input_length |-> -1,
     min_locale_match_fraction |-> 2,
     handle_unknown_locale_as_supported |-> FALSE,
     handle_missing_locale_as_supported |-> FALSE,
     suppress_on_low_confidence_input |-> TRUE,
     low_confidence_rules |-> [present |-> FALSE, rule |-> <<>>],
     suppress_on_sensitive_topic |-> TRUE,
     max_sensitive_topic_score |-> 5,
     min_smart_reply_triggering_score |-> 5,
     locales |-> <<MkLocale("en", "", "")>>,
     has_model_executor |-> TRUE,
     tflite_model_spec |->
         [output_triggering_score |-> TRUE,
          output_sensitive_topic_score |-> TRUE,
          output_replies |-> TRUE,
          output_actions_scores |-> TRUE],
     smart_reply_action_type |-> "text_reply",
     action_type |-> <<[name |-> "share_location", enabled |-> TRUE,
                        min_triggering_score |-> 5]>>,
     rules |-> [present |-> FALSE, rule |-> <<>>],
     annotation_mapping |-> AnnotationMapping,
     deduplicate_annotations |-> TRUE,
     entity_data_schema |-> EntityDataSchema]

\* Models whose policy settings vary.
PolicyModels ==
    {[BaseModel EXCEPT !.suppress_on_low_confidence_input = lc,
                       !.low_confidence_rules = lr,
                       !.suppress_on_sensitive_topic = st,
                       !.rules = rs] :
        lc \in BOOLEAN, lr \in LowConfidenceRuleSets, st \in BOOLEAN,
        rs \in RuleSets}

\* Models whose gate thresholds vary.  A message without locales counts as
\* supported here, so that a locale string that does not parse differs
\* from an empty one.
GateModels ==
    {[BaseModel EXCEPT !.max_conversation_history_length = h,
                       !.handle_missing_locale_as_supported = TRUE,
                       !.min_input_length = lo,
                       !.max_input_length = hi,
                       !.min_locale_match_fraction = q,
                       !.low_confidence_rules =
                           [present |-> TRUE,
                            rule |-> <<PlainRule("b", FALSE, "low")>>],
                       !.rules =
                           [present |-> TRUE,
                            rule |-> <<PlainRule("a", FALSE, "rule_a")>>]] :
        h \in {-1, 0, 1}, lo \in {0, 2}, hi \in {-1, 0, 2},
        q \in {0, 2, 4}}

Texts == {<<>>, <<"a">>, <<"a", "b">>}

LocaleLists ==
    {[parsed |-> FALSE, list |-> <<>>],
     [parsed |-> TRUE, list |-> <<MkLocale("en", "", "US")>>],
     [parsed |-> TRUE, list |-> <<MkLocale("zz", "", "")>>]}

\* Precomputed annotations a message with text `t` may carry: none, or one
\* "date" span over the whole text.
AnnotationsOf(t) ==
    {<<>>,
     <<[span |-> <<0, Len(t)>>,
        classification |-> <<[collection |-> "date", score |-> 8]>>]>>}

PlainMessages ==
    {[text |-> t, locales |-> l, annotations |-> <<>>] :
        t \in Texts, l \in LocaleLists}

\* Conversations of up to MaxMessages messages.  Only the last message's
\* annotations are read (line 466), so only the last message carries any.
Conversations ==
    {<<>>} \cup
    {Append(c, [text |-> t, locales |-> l, annotations |-> a]) :
        <<c, t, l, a>> \in
            {x \in SeqsUpTo(PlainMessages, MaxMessages - 1) \X Texts
                   \X LocaleLists
                   \X UNION {AnnotationsOf(t) : t \in Texts} :
                x[4] \in AnnotationsOf(x[2])}}

\* What the interpreter may do on a request.
Tensor(valid, value) == [valid |-> valid, value |-> value]

ModelOutcomes ==
    {[kind |-> k, triggering_score |-> Tensor(FALSE, 0),
      sensitive_topic_score |-> Tensor(FALSE, 0), replies |-> <<>>,
      actions_scores |-> <<0>>] :
        k \in {"no_interpreter", "allocate_failed", "invoke_failed"}}
    \cup
    {[kind |-> "ok", triggering_score |-> t, sensitive_topic_score |-> s,
      replies |-> <<[text |-> <<>>, score |-> 9],
                    [text |-> <<"o", "k">>, score |-> 8]>>,
      actions_scores |-> <<7>>] :
        t \in {Tensor(FALSE, 0), Tensor(TRUE, 8)},
        s \in {Tensor(FALSE, 0), Tensor(TRUE, 2), Tensor(TRUE, 8)}}

(***************************************************************************)
(* The request: ActionsSuggestions::SuggestActions.                        *)
(***************************************************************************)
NoCalls ==
    [annotations |-> 0, low_confidence |-> 0, model |-> 0, invoke |-> 0,
     rules |-> 0, ranker |-> 0]

\* A model without a scoring model: model_executor_ is null.
NoExecutorModels ==
    {[BaseModel EXCEPT !.has_model_executor = FALSE,
                       !.rules =
                           [present |-> TRUE,
                            rule |-> <<PlainRule("a", FALSE, "rule_a")>>]]}

\* A model whose maximal history is longer than every conversation.
LongHistoryModels ==
    {[BaseModel EXCEPT !.max_conversation_history_length = MaxMessages + 1,
                       !.rules =
                           [present |-> TRUE,
                            rule |-> <<PlainRule("a", FALSE, "rule_a")>>]]}

Models ==
    PolicyModels \cup GateModels \cup NoExecutorModels
        \cup LongHistoryModels

\* The state after ValidateAndInitialize succeeded, at the call of
\* SuggestActions.
Init ==
    /\ model_ \in Models
    /\ low_confidence_rules_ = InitializeLowConfidenceRules(model_)
    /\ rules_ = InitializePrimaryRules(model_)
    /\ conversation \in Conversations
    /\ pc = "gather"
    /\ num_messages = 0
    /\ response = DefaultResponse
    /\ gather_result = "none"
    /\ rank_result = "none"
    /\ stopped_at = "running"
    /\ calls = NoCalls
    /\ LocaleIdle
    /\ AnnotationIdle
    /\ ComponentsIdle

Return(result, where) ==
    /\ pc' = "gathered"
    /\ gather_result' = result
    /\ stopped_at' = where

\* Faulty variant: the empty conversation is not returned for at once.
GatherPreconditions_NoEmptyCheck ==
    /\ pc = "gather"
    /\ UNCHANGED outside_request
    /\ UNCHANGED <<model_, low_confidence_rules_, rules_, conversation,
                   rank_result>>
    /\      LET n == NumMessages(model_, conversation)
                with_annotations ==
                    [response EXCEPT !.actions = @ \o
                        SuggestActionsFromAnnotations(model_, conversation)]
                input_text_length == InputTextLength(conversation, n)
                num_matching_locales ==
                    NumMatchingLocales(model_, conversation, n)
            IN  /\ num_messages' = n
                /\ IF n <= 0
                   THEN /\ Return("false", "no_messages")
                        /\ UNCHANGED <<response, calls>>
                   ELSE IF InputLengthOutOfRange(model_, input_text_length)
                   THEN /\ Return("true", "length")
                        /\ response' = with_annotations
                        /\ calls' = [calls EXCEPT !.annotations = @ + 1]
                   ELSE IF LocaleMismatch(model_, num_matching_locales, n)
                   THEN /\ Return("true", "locale")
                        /\ response' = MarkLocaleMismatch(with_annotations)
                        /\ calls' = [calls EXCEPT !.annotations = @ + 1]
                   ELSE IF IsLowConfidenceInput(low_confidence_rules_,
                                                conversation, n)
                   THEN /\ Return("true", "low_confidence")
                        /\ response' = MarkLowConfidence(with_annotations)
                        /\ calls' = [calls EXCEPT !.annotations = @ + 1,
                                                  !.low_confidence = @ + 1]
                   ELSE /\ pc' = "model"
                        /\ response' = with_annotations
                        /\ calls' = [calls EXCEPT !.annotations = @ + 1,
                                                  !.low_confidence = @ + 1]
                        /\ UNCHANGED <<gather_result, stopped_at>>

\* Faulty variant: only a negative number of messages counts as none.
NoMessagesSelected_Negative(n) == n < 0

\* Line 655: no message was selected.
NoMessagesSelected(n) == n <= 0

\* Lines 642-698: from the entry of GatherActionsSuggestions to the
\* low-confidence check.
GatherPreconditions ==
    /\ pc = "gather"
    /\ UNCHANGED outside_request
    /\ UNCHANGED <<model_, low_confidence_rules_, rules_, conversation,
                   rank_result>>
    /\ IF conversation = <<>>
       THEN /\ Return("true", "empty")
            /\ UNCHANGED <<num_messages, response, calls>>
       ELSE LET n == NumMessages(model_, conversation)
                with_annotations ==
                    [response EXCEPT !.actions = @ \o
                        SuggestActionsFromAnnotations(model_, conversation)]
                input_text_length == InputTextLength(conversation, n)
                num_matching_locales ==
                    NumMatchingLocales(model_, conversation, n)
            IN  /\ num_messages' = n
                /\ IF NoMessagesSelected(n)
                   THEN /\ Return("false", "no_messages")
                        /\ UNCHANGED <<response, calls>>
                   ELSE IF InputLengthOutOfRange(model_, input_text_length)
                   THEN /\ Return("true", "length")
                        /\ response' = with_annotations
                        /\ calls' = [calls EXCEPT !.annotations = @ + 1]
                   ELSE IF LocaleMismatch(model_, num_matching_locales, n)
                   THEN /\ Return("true", "locale")
                        /\ response' = MarkLocaleMismatch(with_annotations)
                        /\ calls' = [calls EXCEPT !.annotations = @ + 1]
                   ELSE IF IsLowConfidenceInput(low_confidence_rules_,
                                                conversation, n)
                   THEN /\ Return("true", "low_confidence")
                        /\ response' = MarkLowConfidence(with_annotations)
                        /\ calls' = [calls EXCEPT !.annotations = @ + 1,
                                                  !.low_confidence = @ + 1]
                   ELSE /\ pc' = "model"
                        /\ response' = with_annotations
                        /\ calls' = [calls EXCEPT !.annotations = @ + 1,
                                                  !.low_confidence = @ + 1]
                        /\ UNCHANGED <<gather_result, stopped_at>>

\* Lines 700-706: the model step and the sensitivity gate.
ModelStep ==
    /\ pc = "model"
    /\ UNCHANGED outside_request
    /\ \E outcome \in ModelOutcomes :
          LET r == SuggestActionsFromModel(model_, DefaultOptions, outcome,
                                           response)
          IN  /\ response' = r
              /\ calls' = [calls EXCEPT
                    !.model = @ + 1,
                    !.invoke = @ + IF InterpreterInvoked(model_, outcome)
                                   THEN 1 ELSE 0]
              /\ IF SensitivitySuppressed(model_, r)
                 THEN Return("true", "sensitivity")
                 ELSE /\ pc' = "rules"
                      /\ UNCHANGED <<gather_result, stopped_at>>
    /\ UNCHANGED <<model_, low_confidence_rules_, rules_, conversation,
                   num_messages, rank_result>>

\* Lines 708-713: the rule pass.
RulePass ==
    /\ pc = "rules"
    /\ UNCHANGED outside_request
    /\ LET r == SuggestActionsFromRules(
                    model_, rules_, conversation[Len(conversation)].text)
       IN  /\ response' = [response EXCEPT !.actions = @ \o r.actions]
           /\ IF r.ok THEN Return("true", "complete")
                      ELSE Return("false", "rules_failed")
    /\ calls' = [calls EXCEPT !.rules = @ + 1]
    /\ UNCHANGED <<model_, low_confidence_rules_, rules_, conversation,
                   num_messages, rank_result>>

\* Faulty variant: a ranking failure keeps what the ranker left.
AfterRanking_KeepOnFailure(resp, r) ==
    [resp EXCEPT !.actions = r.actions]

\* Lines 723-726: the response after the ranker returned r; a ranking
\* failure discards the actions.
AfterRanking(resp, r) ==
    [resp EXCEPT !.actions = IF r.ok THEN r.actions ELSE <<>>]

\* Faulty variant: a failed gathering returns the actions gathered so far.
GatherFailed_KeepActions ==
    /\ pc = "gathered"
    /\ UNCHANGED outside_request
    /\ gather_result = "false"
    /\ pc' = "done"
    /\ UNCHANGED <<model_, low_confidence_rules_, rules_, conversation,
                   num_messages, response, gather_result, rank_result,
                   stopped_at, calls>>

\* Lines 720-722: gathering failed; the actions are discarded.
GatherFailed ==
    /\ pc = "gathered"
    /\ UNCHANGED outside_request
    /\ gather_result = "false"
    /\ response' = [response EXCEPT !.actions = <<>>]
    /\ pc' = "done"
    /\ UNCHANGED <<model_, low_confidence_rules_, rules_, conversation,
                   num_messages, gather_result, rank_result, stopped_at,
                   calls>>

\* Faulty variant: the ranker is called after a failed gathering too.
Rank_AfterFailure ==
    /\ pc = "gathered"
    /\ UNCHANGED outside_request
    /\ \E outcome \in RankerOutcomes :
          LET r == RankActions(response.actions, outcome)
          IN  /\ rank_result' = IF r.ok THEN "true" ELSE "false"
              /\ response' = AfterRanking(response, r)
    /\ calls' = [calls EXCEPT !.ranker = @ + 1]
    /\ pc' = "done"
    /\ UNCHANGED <<model_, low_confidence_rules_, rules_, conversation,
                   num_messages, gather_result, stopped_at>>

\* Lines 723-726: ranking.
Rank ==
    /\ pc = "gathered"
    /\ UNCHANGED outside_request
    /\ gather_result = "true"
    /\ \E outcome \in RankerOutcomes :
          LET r == RankActions(response.actions, outcome)
          IN  /\ rank_result' = IF r.ok THEN "true" ELSE "false"
              /\ response' = AfterRanking(response, r)
    /\ calls' = [calls EXCEPT !.ranker = @ + 1]
    /\ pc' = "done"
    /\ UNCHANGED <<model_, low_confidence_rules_, rules_, conversation,
                   num_messages, gather_result, stopped_at>>

Next ==
    \/ GatherPreconditions
    \/ ModelStep
    \/ RulePass
    \/ GatherFailed
    \/ Rank

Spec == Init /\ [][Next]_vars

(***************************************************************************)
(* Properties.                                                             *)
(***************************************************************************)
Returned == pc \in {"gathered", "done"}

LastText == conversation[Len(conversation)].text

\* The summed text length of the last num_messages messages.
SelectedLength == InputTextLength(conversation, num_messages)

\* The actions the annotation pass gathered for this request.
AnnotationActions == SuggestActionsFromAnnotations(model_, conversation)

NoPolicyFlag ==
    /\ ~response.output_filtered_locale_mismatch
    /\ ~response.output_filtered_low_confidence
    /\ ~response.output_filtered_sensitivity

\* The length gate was reached and the length is outside the range.
LengthOutside ==
    /\ num_messages >= 1
    /\ \/ SelectedLength < model_.min_input_length
       \/ /\ model_.max_input_length >= 0
          /\ SelectedLength > model_.max_input_length

\* The length gate was reached and passed.
LengthPassed ==
    /\ num_messages >= 1
    /\ SelectedLength >= model_.min_input_length
    /\ model_.max_input_length >= 0
           => SelectedLength <= model_.max_input_length

\* Selected messages whose locale string parses and has a supported locale.
MatchingMessages ==
    {i \in (Len(conversation) - num_messages + 1)..Len(conversation) :
        /\ conversation[i].locales.parsed
        /\ IsAnyLocaleSupportedByModel(model_, model_.locales,
                                       conversation[i].locales.list)}

FractionBelowMinimum ==
    4 * Cardinality(MatchingMessages) <
        model_.min_locale_match_fraction * num_messages

\* Some configured low-confidence rule matches some selected message.
LowConfidenceRuleMatches ==
    /\ model_.low_confidence_rules.present
    /\ \E r \in 1..Len(model_.low_confidence_rules.rule) :
          \E i \in (Len(conversation) - num_messages + 1)..Len(conversation) :
             \E k \in 1..Len(conversation[i].text) :
                /\ conversation[i].text[k] =
                       model_.low_confidence_rules.rule[r].pattern.ch
                /\ ~model_.low_confidence_rules.rule[r].pattern.overflows

\* Some primary rule's matcher reports an error status on the last message.
MatcherReportsError ==
    \E i \in 1..Len(rules_) :
        /\ rules_[i].pattern.overflows
        /\ \E k \in 1..Len(LastText) : LastText[k] = rules_[i].pattern.ch

\* Some primary rule matches the last message and has a capturing group
\* whose field the entity-data schema cannot store a string in.
CapturingGroupFails ==
    \E i \in 1..Len(rules_) :
        /\ ~rules_[i].pattern.overflows
        /\ \E k \in 1..Len(LastText) : LastText[k] = rules_[i].pattern.ch
        /\ \E a \in 1..Len(rules_[i].actions) :
              \E g \in 1..Len(rules_[i].actions[a].capturing_group) :
                 LET field ==
                         rules_[i].actions[a].capturing_group[g].entity_field
                 IN  \/ field \notin DOMAIN model_.entity_data_schema
                     \/ model_.entity_data_schema[field] # "String"

\* C1: when the summed text length of the last num_messages messages is
\* outside the input-length range, GatherActionsSuggestions returns success
\* without running the low-confidence check, the scoring model or the rule
\* pass, sets none of the locale-mismatch, low-confidence and sensitivity
\* flags, and hands exactly the annotation-derived actions to the ranker.
C1_LengthGateStopsBeforeModel ==
    (Returned /\ LengthOutside) =>
        /\ gather_result = "true"
        /\ calls.model = 0 /\ calls.invoke = 0 /\ calls.rules = 0
        /\ calls.low_confidence = 0
        /\ NoPolicyFlag
        /\ pc = "gathered" => response.actions = AnnotationActions

\* Witness of C1: the length gate stopped a request that has annotation
\* actions and whose locale match fraction is below the minimum as well.
C1_Witness ==
    /\ pc = "gathered" /\ LengthOutside /\ FractionBelowMinimum
    /\ response.actions # <<>>

\* C2: when suppress_on_sensitive_topic is set and the sensitivity score
\* read from the model exceeds max_sensitive_topic_score, the response has
\* output_filtered_sensitivity set and holds only annotation-derived
\* actions, the rule pass is not run, and gathering succeeds with exactly
\* the annotation-derived actions.
C2_SensitiveTopicSuppressesModelAndRules ==
    (/\ model_.suppress_on_sensitive_topic
     /\ response.sensitivity_score > model_.max_sensitive_topic_score) =>
        /\ Returned
        /\ gather_result = "true"
        /\ response.output_filtered_sensitivity
        /\ calls.rules = 0
        /\ \A i \in 1..Len(response.actions) :
              response.actions[i].origin = "annotation"
        /\ pc = "gathered" => response.actions = AnnotationActions

\* Witness of C2: the sensitivity gate stopped a request that has
\* annotation actions, on a last message a primary rule would match.
C2_Witness ==
    /\ pc = "gathered"
    /\ model_.suppress_on_sensitive_topic
    /\ response.sensitivity_score > model_.max_sensitive_topic_score
    /\ response.actions # <<>>
    /\ \E i \in 1..Len(rules_) :
          \E k \in 1..Len(LastText) : LastText[k] = rules_[i].pattern.ch

\* C3: a rule pass in which a matcher reports an error status returns
\* failure.
C3_MatcherErrorFailsRulePass ==
    (Returned /\ calls.rules = 1 /\ MatcherReportsError) =>
        gather_result = "false"

\* C4: if setting a field from a capturing group fails during the rule
\* pass, gathering fails, the ranker is not run and the response
\* SuggestActions returns has an empty action list.
C4_CapturingGroupFailureEmptiesResponse ==
    (calls.rules = 1 /\ CapturingGroupFails) =>
        /\ gather_result = "false"
        /\ calls.ranker = 0 /\ rank_result = "none"
        /\ pc = "done" => response.actions = <<>>

\* Witness of C4: a request returned after a capturing-group failure, with
\* annotation actions and an earlier matching rule before the failure.
C4_Witness ==
    /\ pc = "done" /\ calls.rules = 1 /\ CapturingGroupFails
    /\ AnnotationActions # <<>>
    /\ \E k \in 1..Len(LastText) : LastText[k] = rules_[1].pattern.ch
    /\ calls.invoke = 1

\* The response SuggestActions returns for an empty conversation when the
\* ranker keeps the list: a successful request that produced no actions.
EmptySuccessResponse ==
    AfterRanking(DefaultResponse, RankActions(DefaultResponse.actions, "keep"))

RequestAborted == gather_result = "false" \/ rank_result = "false"

\* C5 as stated: the response returned after a request-abort differs from
\* the response of a successful request that produced no actions.
C5_AbortDistinguishable ==
    (pc = "done" /\ RequestAborted) => response # EmptySuccessResponse

\* C5 amended: GatherActionsSuggestions returns false exactly when no
\* message is selected or a capturing group fails in the rule pass, and
\* after every request-abort SuggestActions returns a response whose action
\* list is empty.
C5_AbortReturnsEmptyActions ==
    /\ Returned =>
          (gather_result = "false" <=>
              /\ conversation # <<>>
              /\ \/ model_.max_conversation_history_length = 0
                 \/ calls.rules = 1 /\ CapturingGroupFails)
    /\ (pc = "done" /\ RequestAborted) => response.actions = <<>>

\* Witness of C5: a request aborted because no message was selected returns
\* the very response of a successful request without actions.
C5_Witness ==
    /\ pc = "done" /\ gather_result = "false"
    /\ model_.max_conversation_history_length = 0
    /\ response = EmptySuccessResponse

PolicyStops == {"length", "locale", "low_confidence", "sensitivity"}

\* C6 as stated: every policy suppression ends gathering successfully with
\* a filter flag set in the response.
C6_SuppressionSetsFlag ==
    (Returned /\ stopped_at \in PolicyStops) =>
        /\ gather_result = "true"
        /\ ~NoPolicyFlag

\* C6 amended: every policy suppression ends gathering successfully with
\* the annotation-derived actions; locale mismatch, low-confidence input
\* and sensitivity suppression set their own flag and no other, and an
\* input length out of range sets no flag.
C6_SuppressionFlags ==
    (Returned /\ stopped_at \in PolicyStops) =>
        /\ gather_result = "true"
        /\ response.output_filtered_locale_mismatch <=> stopped_at = "locale"
        /\ response.output_filtered_low_confidence <=>
               stopped_at = "low_confidence"
        /\ response.output_filtered_sensitivity <=>
               stopped_at = "sensitivity"
        /\ pc = "gathered" => response.actions = AnnotationActions

\* Witness of C6: a low-confidence suppression that keeps annotation
\* actions.
C6_Witness ==
    /\ pc = "gathered" /\ stopped_at = "low_confidence"
    /\ response.output_filtered_low_confidence
    /\ response.actions # <<>>

\* C7: when the ranker reports failure, the response SuggestActions
\* returns is the gathered response with its action list emptied; flags
\* and scores are unchanged.
C7_RankingFailureDiscardsActions ==
    [][(pc = "gathered" /\ gather_result = "true" /\ rank_result' = "false")
          => /\ pc' = "done"
             /\ response' = [response EXCEPT !.actions = <<>>]]_vars

\* Witness of C7: a ranking failure on a request that gathered annotation
\* actions and a triggering score.
C7_Witness ==
    /\ pc = "done" /\ rank_result = "false"
    /\ conversation # <<>>
    /\ AnnotationActions # <<>>
    /\ response.actions = <<>>
    /\ response.triggering_score # NoScore

\* C8 as stated: the length gate fires exactly when L < min_input_length,
\* or max_input_length is positive and L > max_input_length.
C8_GateFiresOnPositiveMaximum ==
    (Returned /\ num_messages >= 1) =>
        (stopped_at = "length" <=>
            \/ SelectedLength < model_.min_input_length
            \/ /\ model_.max_input_length > 0
               /\ SelectedLength > model_.max_input_length)

\* C8 amended: the length gate fires exactly when L < min_input_length, or
\* max_input_length is not negative and L > max_input_length.
C8_GateFiresOnNonNegativeMaximum ==
    (Returned /\ num_messages >= 1) =>
        (stopped_at = "length" <=>
            \/ SelectedLength < model_.min_input_length
            \/ /\ model_.max_input_length >= 0
               /\ SelectedLength > model_.max_input_length)

\* Witness of C8: with max_input_length = 0 a non-empty input that meets
\* the minimum is stopped by the length gate.
C8_Witness ==
    /\ pc = "gathered" /\ stopped_at = "length"
    /\ model_.max_input_length = 0
    /\ SelectedLength > 0
    /\ SelectedLength >= model_.min_input_length

\* C9: given the length gate passed, if the number of selected messages
\* with a supported locale divided by num_messages is below
\* min_locale_match_fraction, gathering succeeds with
\* output_filtered_locale_mismatch set, without low-confidence check, model
\* or rule pass, and with the annotation-derived actions; otherwise the
\* locale gate does not stop the pipeline.
C9_LocaleGate ==
    (pc # "gather" /\ LengthPassed) =>
        IF FractionBelowMinimum
        THEN /\ Returned
             /\ stopped_at = "locale"
             /\ gather_result = "true"
             /\ response.output_filtered_locale_mismatch
             /\ calls.low_confidence = 0 /\ calls.model = 0
             /\ calls.invoke = 0 /\ calls.rules = 0
             /\ pc = "gathered" => response.actions = AnnotationActions
        ELSE /\ stopped_at # "locale"
             /\ ~response.output_filtered_locale_mismatch

\* Witness of C9: the locale gate stopped a two-message request in which
\* one message has a supported locale and the other does not parse, under a
\* model that takes a message without locales as supported.
C9_Witness ==
    /\ pc = "gathered" /\ stopped_at = "locale" /\ num_messages = 2
    /\ Cardinality(MatchingMessages) = 1
    /\ \E i \in 1..2 : ~conversation[i].locales.parsed
    /\ model_.handle_missing_locale_as_supported
    /\ response.actions # <<>>

\* C10: given the length and locale gates passed, gathering stops with
\* output_filtered_low_confidence set (success, model not invoked, rule
\* pass not run) if and only if suppress_on_low_confidence_input is set and
\* a configured low-confidence rule matches one of the last num_messages
\* messages.
C10_LowConfidenceGate ==
    (pc # "gather" /\ LengthPassed /\ ~FractionBelowMinimum) =>
        /\ stopped_at = "low_confidence" <=>
              /\ model_.suppress_on_low_confidence_input
              /\ LowConfidenceRuleMatches
        /\ response.output_filtered_low_confidence <=>
              stopped_at = "low_confidence"
        /\ stopped_at = "low_confidence" =>
              /\ Returned
              /\ gather_result = "true"
              /\ calls.model = 0 /\ calls.invoke = 0 /\ calls.rules = 0

\* Witness of C10: a low-confidence rule matched an earlier message only.
C10_Witness ==
    /\ pc = "gathered" /\ stopped_at = "low_confidence"
    /\ num_messages = 2
    /\ \A k \in 1..Len(LastText) : LastText[k] # "b"

\* C11 as stated: when suppress_on_sensitive_topic is not set, a request
\* whose sensitivity score exceeds max_sensitive_topic_score is not stopped
\* by the sensitivity gate, its rule pass runs, and the response gathered
\* holds the model-derived actions the model produced.
C11_UnsuppressedSensitivityKeepsModelActions ==
    (/\ Returned
     /\ ~model_.suppress_on_sensitive_topic
     /\ response.sensitivity_score > model_.max_sensitive_topic_score) =>
        /\ stopped_at # "sensitivity"
        /\ calls.rules = 1
        /\ pc = "gathered" =>
              \E i \in 1..Len(response.actions) :
                 response.actions[i].origin = "model"

\* The smaller of two integers.
Min(a, b) == IF a < b THEN a ELSE b

\* What C12 says num_messages is for the conversation and the model of
\* the request.
ClampedLength ==
    IF model_.max_conversation_history_length < 0
    THEN Len(conversation)
    ELSE Min(Len(conversation), model_.max_conversation_history_length)

\* C12: for a non-empty conversation num_messages is the conversation
\* length when max_conversation_history_length is negative and the smaller
\* of the two otherwise, as computed for the request and as the request
\* holds it afterwards; when num_messages <= 0 the request fails before
\* any other step: no annotation pass, low-confidence check, model, rule
\* pass or ranker runs, the response gathered is untouched and the action
\* list returned is empty.
C12_ClampAndNoMessagesSelected ==
    /\ conversation # <<>> =>
          NumMessages(model_, conversation) = ClampedLength
    /\ (pc # "gather" /\ conversation # <<>>) =>
        /\ num_messages = ClampedLength
        /\ num_messages <= 0 =>
              /\ Returned
              /\ gather_result = "false"
              /\ stopped_at = "no_messages"
              /\ calls = NoCalls
              /\ rank_result = "none"
              /\ response = DefaultResponse

\* Witness of C12: a request on a two-message conversation whose last
\* message carries an annotation returned after no message was selected.
C12_Witness ==
    /\ pc = "done" /\ Len(conversation) = 2 /\ num_messages = 0
    /\ conversation[2].annotations # <<>>
    /\ model_.annotation_mapping # <<>>
    /\ response.actions = <<>>

\* More of C12: a conversation shorter than the maximum is taken whole,
\* and a longer one is cut to the maximum.
C12_ShortConversationWitness ==
    /\ pc = "done"
    /\ model_.max_conversation_history_length > Len(conversation)
    /\ Len(conversation) = 2
    /\ num_messages = 2

C12_LongConversationWitness ==
    /\ pc = "done"
    /\ model_.max_conversation_history_length = 1
    /\ Len(conversation) = 2
    /\ num_messages = 1

\* C13: a request on a conversation without messages succeeds: gathering
\* returns true without running the annotation pass, the low-confidence
\* check, the scoring model or the rule pass, and the response keeps an
\* empty action list, no scores and no filter flag up to its return.
C13_EmptyConversationSucceeds ==
    (conversation = <<>> /\ pc # "gather") =>
        /\ Returned
        /\ gather_result = "true"
        /\ stopped_at = "empty"
        /\ response = DefaultResponse
        /\ calls.annotations = 0 /\ calls.low_confidence = 0
        /\ calls.model = 0 /\ calls.invoke = 0 /\ calls.rules = 0
        /\ pc = "done" => calls.ranker = 1

\* Witness of C13: a request on an empty conversation returned, under a
\* model that has a scoring model, primary rules and a mapping table.
C13_Witness ==
    /\ pc = "done" /\ conversation = <<>>
    /\ rank_result = "true"
    /\ model_.has_model_executor /\ model_.rules.present
    /\ model_.annotation_mapping # <<>>
    /\ model_.max_conversation_history_length = 0

\* Every step of the request has run at most once, a later step only
\* after the earlier ones, and the ranker exactly on the requests whose
\* gathering succeeded.
StepsAtMostOnceInOrder ==
    /\ \A step \in DOMAIN calls : calls[step] <= 1
    /\ calls.low_confidence = 1 => calls.annotations = 1
    /\ calls.model = 1 => calls.low_confidence = 1
    /\ calls.invoke = 1 => calls.model = 1
    /\ calls.rules = 1 => calls.model = 1
    /\ calls.ranker = 1 => pc = "done" /\ gather_result = "true"
    /\ pc = "done" => (calls.ranker = 1 <=> gather_result = "true")

\* No step runs again, and none runs after a later step has run.
StepKeepsOrder ==
    /\ \A step \in DOMAIN calls : calls'[step] >= calls[step]
    /\ calls'.annotations > calls.annotations =>
          calls.model = 0 /\ calls.rules = 0 /\ calls.ranker = 0
    /\ calls'.model > calls.model => calls.rules = 0 /\ calls.ranker = 0
    /\ calls'.rules > calls.rules => calls.ranker = 0
    /\ calls'.ranker > calls.ranker => gather_result = "true"

\* C14: within one request the annotation pass, the model invocation, the
\* rule pass and the ranking each run at most once and in that order; the
\* ranker runs exactly once on every request whose gathering succeeded and
\* never after a gathering failure.
C14_NoStepRetried == []StepsAtMostOnceInOrder /\ [][StepKeepsOrder]_vars

\* Witness of C14: a request returned after each of its steps ran once.
C14_Witness ==
    /\ pc = "done"
    /\ \A step \in DOMAIN calls : calls[step] = 1
    /\ stopped_at = "complete"

(***************************************************************************)
(* The locale matcher taken alone: IsLocaleSupportedByModel and            *)
(* IsAnyLocaleSupportedByModel called on an initialized engine, over the   *)
(* locales the model declares and the locales a message gives.             *)
(***************************************************************************)
Languages == {"", kAnyMatch, "en", "de"}
Scripts == {"", kAnyMatch, "Latn"}
Regions == {"", kAnyMatch, "US"}

\* Locale::Invalid() and the unknown locale.
InvalidLocale ==
    [valid |-> FALSE, unknown |-> FALSE, language |-> "", script |-> "",
     region |-> ""]

UnknownLocale ==
    [valid |-> TRUE, unknown |-> TRUE, language |-> "", script |-> "",
     region |-> ""]

\* A locale none of whose components is given.
AllEmpty(locale) ==
    locale.language = "" /\ locale.script = "" /\ locale.region = ""

\* The locales a model may declare (line 143 parses them into locales_).
ModelLocales ==
    {MkLocale(l, s, r) : l \in Languages, s \in Scripts, r \in Regions}
    \cup {InvalidLocale}

\* The locales IsLocaleSupportedByModel is called with.
CandidateLocales ==
    {c \in {MkLocale(l, s, r) :
                l \in Languages, s \in Scripts, r \in Regions} :
        ~AllEmpty(c)}
    \cup {InvalidLocale, UnknownLocale}

\* The locale lists of the models: every list of at most one locale, and
\* the longer lists over a few locales.
ListLocales ==
    {InvalidLocale, MkLocale("en", "", ""), MkLocale("de", "Latn", ""),
     MkLocale(kAnyMatch, "", "US")}

ModelLocaleLists ==
    SeqsUpTo(ModelLocales, 1) \cup SeqsUpTo(ListLocales, MaxModelLocales)

LocaleModels ==
    {[BaseModel EXCEPT !.locales = ls,
                       !.handle_unknown_locale_as_supported = u,
                       !.handle_missing_locale_as_supported = e] :
        ls \in ModelLocaleLists, u \in BOOLEAN, e \in BOOLEAN}

\* The locale lists of a message (the result of ParseLocales, line 668).
MessageLocaleLists ==
    SeqsUpTo({InvalidLocale, UnknownLocale, MkLocale("en", "", "US"),
              MkLocale("de", "", ""), MkLocale("", "Latn", "")},
             MaxMessageLocales)

\* The variables of a request at rest.
RequestIdle ==
    /\ low_confidence_rules_ = <<>>
    /\ rules_ = <<>>
    /\ pc = "idle"
    /\ num_messages = 0
    /\ gather_result = "none"
    /\ rank_result = "none"
    /\ stopped_at = "idle"
    /\ calls = NoCalls

LocaleInit ==
    /\ model_ \in LocaleModels
    /\ conversation = <<>>
    /\ response = DefaultResponse
    /\ RequestIdle
    /\ LocaleIdle
    /\ AnnotationIdle
    /\ ComponentsIdle

\* A call of IsLocaleSupportedByModel(locale).
CallIsLocaleSupportedByModel ==
    /\ locale_call.fn = "none"
    /\ \E locale \in CandidateLocales :
          locale_call' =
              [fn |-> "IsLocaleSupportedByModel",
               locales |-> model_.locales,
               locale |-> locale,
               message_locales |-> <<>>,
               result |-> IsLocaleSupportedByModel(model_, model_.locales,
                                                   locale)]
    /\ UNCHANGED <<model_, conversation, response, request_vars,
                   relaxed_call, annotation_vars, component_vars>>

\* A call of IsAnyLocaleSupportedByModel(locales).
CallIsAnyLocaleSupportedByModel ==
    /\ locale_call.fn = "none"
    /\ \E message_locales \in MessageLocaleLists :
          locale_call' =
              [fn |-> "IsAnyLocaleSupportedByModel",
               locales |-> model_.locales,
               locale |-> <<>>,
               message_locales |-> message_locales,
               result |-> IsAnyLocaleSupportedByModel(
                              model_, model_.locales, message_locales)]
    /\ UNCHANGED <<model_, conversation, response, request_vars,
                   relaxed_call, annotation_vars, component_vars>>

\* The call of IsLocaleSupportedByModel repeated after one component of a
\* declared model locale, or of the candidate, was replaced by the wildcard
\* or by the empty string.  A candidate is only replaced if it is a valid,
\* known locale and keeps a non-empty component.
ReplaceComponent ==
    /\ locale_call.fn = "IsLocaleSupportedByModel"
    /\ relaxed_call.side = "none"
    /\ \E side \in {"model", "candidate"},
          component \in {"language", "script", "region"},
          value \in {"", kAnyMatch} :
          \E index \in IF side = "model"
                       THEN 1..Len(locale_call.locales) ELSE {0} :
             LET locales ==
                     IF side = "model"
                     THEN [locale_call.locales EXCEPT
                              ![index][component] = value]
                     ELSE locale_call.locales
                 locale ==
                     IF side = "candidate"
                     THEN [locale_call.locale EXCEPT ![component] = value]
                     ELSE locale_call.locale
             IN  /\ side = "candidate" =>
                       /\ locale_call.locale.valid
                       /\ ~locale_call.locale.unknown
                       /\ ~AllEmpty(locale)
                 /\ relaxed_call' =
                       [side |-> side, index |-> index,
                        component |-> component, value |-> value,
                        locales |-> locales, locale |-> locale,
                        result |-> IsLocaleSupportedByModel(model_, locales,
                                                            locale)]
    /\ UNCHANGED <<model_, conversation, response, request_vars,
                   locale_call, annotation_vars, component_vars>>

LocaleNext ==
    \/ CallIsLocaleSupportedByModel
    \/ CallIsAnyLocaleSupportedByModel
    \/ ReplaceComponent

LocaleSpec == LocaleInit /\ [][LocaleNext]_vars

(***************************************************************************)
(* Properties of the locale matcher.                                       *)
(***************************************************************************)
\* A model field matches a candidate field when it is empty, the wildcard
\* or equal to it; with `relaxed`, also when the candidate field is empty.
ComponentMatches(model_field, candidate_field, relaxed) ==
    \/ model_field = ""
    \/ model_field = "*"
    \/ model_field = candidate_field
    \/ relaxed /\ candidate_field = ""

\* A declared model locale matches a candidate on all three components.
LocaleMatches(model_locale, locale) ==
    /\ model_locale.valid
    /\ ComponentMatches(model_locale.language, locale.language, FALSE)
    /\ ComponentMatches(model_locale.script, locale.script, TRUE)
    /\ ComponentMatches(model_locale.region, locale.region, TRUE)

\* What the locale matcher is to answer for one locale.
SupportedLocale(locale) ==
    IF ~locale.valid THEN FALSE
    ELSE IF locale.unknown THEN model_.handle_unknown_locale_as_supported
    ELSE \E i \in 1..Len(model_.locales) :
            LocaleMatches(model_.locales[i], locale)

LocaleCalled == locale_call.fn = "IsLocaleSupportedByModel"

AnyLocaleCalled == locale_call.fn = "IsAnyLocaleSupportedByModel"

\* C15: for a valid candidate locale that is not unknown,
\* IsLocaleSupportedByModel returns true if and only if some valid declared
\* model locale matches it on language, script and region; a candidate
\* with an empty language is not supported when every valid declared
\* locale has a concrete language.
C15_SupportedIffSomeModelLocaleMatches ==
    (/\ LocaleCalled
     /\ locale_call.locale.valid
     /\ ~locale_call.locale.unknown) =>
        /\ locale_call.result <=>
              \E i \in 1..Len(locale_call.locales) :
                 LocaleMatches(locale_call.locales[i], locale_call.locale)
        /\ (/\ locale_call.locale.language = ""
            /\ \A i \in 1..Len(locale_call.locales) :
                  locale_call.locales[i].valid =>
                     locale_call.locales[i].language \notin {"", "*"}) =>
              ~locale_call.result

\* Witness of C15: a candidate without language but with the script and
\* the region a declared locale names is not supported, the declared
\* locale having a concrete language.
C15_Witness ==
    /\ LocaleCalled
    /\ locale_call.locale.valid /\ ~locale_call.locale.unknown
    /\ locale_call.locale.language = ""
    /\ Len(locale_call.locales) = 1
    /\ locale_call.locales[1].valid
    /\ locale_call.locales[1].language = "en"
    /\ locale_call.locales[1].script = locale_call.locale.script
    /\ locale_call.locales[1].region = locale_call.locale.region
    /\ ~locale_call.result

Replaced == relaxed_call.side # "none"

\* C16 as stated: replacing a component of the model locale or of the
\* candidate locale by "*" or by the empty string never turns a matching
\* pair into a non-matching one.
C16_ReplacementNeverNarrows ==
    (Replaced /\ locale_call.result) => relaxed_call.result

\* The replacements the matcher's rules relax for: any component of a
\* declared model locale by "*" or the empty string, and the script or the
\* region of the candidate by the empty string.
RelaxingReplacement ==
    \/ relaxed_call.side = "model"
    \/ /\ relaxed_call.side = "candidate"
       /\ relaxed_call.component \in {"script", "region"}
       /\ relaxed_call.value = ""

\* C16 amended: replacing a component of a declared model locale by "*" or
\* by the empty string, or the script or region of a valid, known candidate
\* by the empty string, never turns a matching pair into a non-matching
\* one.
C16_RelaxingReplacementNeverNarrows ==
    (Replaced /\ RelaxingReplacement /\ locale_call.result) =>
        relaxed_call.result

\* Witness of C16: a candidate matched by the second of two declared
\* locales on its concrete region still matches after that region was
\* replaced by the wildcard in the model.
C16_Witness ==
    /\ Replaced /\ locale_call.result /\ relaxed_call.result
    /\ relaxed_call.side = "model" /\ relaxed_call.index = 2
    /\ relaxed_call.component = "region" /\ relaxed_call.value = "*"
    /\ locale_call.locales[2].region = "US"
    /\ locale_call.locale.region = "US"
    /\ ~LocaleMatches(locale_call.locales[1], locale_call.locale)

\* C17: an invalid locale is never supported, an unknown locale is
\* supported iff handle_unknown_locale_as_supported is set, an empty list
\* of message locales is supported iff handle_missing_locale_as_supported
\* is set, and a non-empty list is supported iff one of its locales is;
\* the first three whatever locales the model declares.
C17_SpecialLocaleCases ==
    /\ LocaleCalled =>
          /\ ~locale_call.locale.valid => ~locale_call.result
          /\ (locale_call.locale.valid /\ locale_call.locale.unknown) =>
                (locale_call.result <=>
                    model_.handle_unknown_locale_as_supported)
    /\ AnyLocaleCalled =>
          IF locale_call.message_locales = <<>>
          THEN locale_call.result <=>
                  model_.handle_missing_locale_as_supported
          ELSE locale_call.result <=>
                  \E i \in 1..Len(locale_call.message_locales) :
                     SupportedLocale(locale_call.message_locales[i])

\* Witness of C17: a list of an invalid and an unknown locale is supported
\* by a model that declares a wildcard locale and takes unknown locales,
\* but not missing ones, as supported.
C17_Witness ==
    /\ AnyLocaleCalled
    /\ locale_call.message_locales = <<InvalidLocale, UnknownLocale>>
    /\ locale_call.result
    /\ model_.handle_unknown_locale_as_supported
    /\ ~model_.handle_missing_locale_as_supported
    /\ Len(model_.locales) = 1 /\ model_.locales[1].language = "*"

(***************************************************************************)
(* The annotation pass taken alone: the candidates of the last message,    *)
(* DeduplicateAnnotations on them and on its own selection, and the        *)
(* mapping of the candidates to actions, with deduplication on and off.    *)
(***************************************************************************)
\* The classification lists of an annotation, best first: none, one, or
\* two of different collections.
Classifications ==
    {<<>>} \cup
    {<<[collection |-> "date", score |-> sc]>> : sc \in {4, 6, 8}} \cup
    {<<[collection |-> "phone", score |-> 8]>>,
     <<[collection |-> "date", score |-> 4],
       [collection |-> "phone", score |-> 8]>>,
     <<[collection |-> "phone", score |-> 8],
       [collection |-> "date", score |-> 8]>>}

\* The annotations a message may carry: a span of one character with its
\* classifications.
AnnotatedSpans ==
    {[span |-> sp, classification |-> cl] :
        sp \in {<<0, 1>>, <<1, 2>>}, cl \in Classifications}

\* One message of two characters, equal or different, with up to
\* MaxAnnotations annotations.
AnnotatedConversations ==
    {<<[text |-> t, locales |-> [parsed |-> FALSE, list |-> <<>>],
        annotations |-> a]>> :
        t \in {<<"a", "a">>, <<"a", "b">>},
        a \in SeqsUpTo(AnnotatedSpans, MaxAnnotations)}

\* A mapping table of three entries: two for dates, with different
\* thresholds, score sources and payloads, and one for phone numbers.
LongAnnotationMapping ==
    <<[annotation_collection |-> "date", min_annotation_score |-> 5,
       use_annotation_score |-> TRUE,
       action |-> ActionSpec("view_calendar", 6)],
      [annotation_collection |-> "date", min_annotation_score |-> 8,
       use_annotation_score |-> FALSE,
       action |-> [ActionSpec("create_event", 3) EXCEPT
                      !.serialized_entity_data = <<"payload">>]],
      [annotation_collection |-> "phone", min_annotation_score |-> 5,
       use_annotation_score |-> FALSE,
       action |-> ActionSpec("call_phone", 7)]>>

AnnotationModels ==
    {[BaseModel EXCEPT !.deduplicate_annotations = d,
                       !.annotation_mapping = mapping] :
        d \in BOOLEAN, mapping \in {AnnotationMapping, LongAnnotationMapping}}

\* Models with and without a mapping table, for the use of the annotator.
AnnotatorModels ==
    {[BaseModel EXCEPT !.annotation_mapping = mapping] :
        mapping \in {<<>>, LongAnnotationMapping}}

\* Conversations whose last message has at most one precomputed annotation.
AnnotatorConversations ==
    {c \in AnnotatedConversations : Len(c[1].annotations) <= 1}

\* What Annotator::Annotate may return for a text (the annotator is the
\* caller's): nothing, or annotations of its first character.
AnnotatorResults ==
    {<<>>} \cup
    {<<[span |-> <<0, 1>>, classification |-> cl]>> :
        cl \in Classifications \ {<<>>}}

\* Lines 458-469: Annotate is called when the mapping table has entries,
\* the last message carries no annotations and an annotator was given.
\* Faulty variant: it is called whenever an annotator was given.
AnnotatorInvoked_WheneverSupplied(m, conv, supplied) ==
    /\ m.annotation_mapping # <<>>
    /\ supplied

AnnotatorInvoked(m, conv, supplied) ==
    /\ m.annotation_mapping # <<>>
    /\ conv[Len(conv)].annotations = <<>>
    /\ supplied

\* Lines 464-470: the conversation with the annotations the pass works on
\* in its last message.
WithAnnotations(conv, annotations) ==
    [conv EXCEPT ![Len(conv)].annotations = annotations]

\* Every model with the deduplication setting on and off and no annotator,
\* and the use of an annotator on short conversations.
AnnotationInit ==
    /\ \/ /\ model_ \in AnnotationModels
          /\ conversation \in AnnotatedConversations
          /\ annotator = NoAnnotator
       \/ /\ model_ \in AnnotatorModels
          /\ conversation \in AnnotatorConversations
          /\ annotator \in {[NoAnnotator EXCEPT !.supplied = b] :
                                b \in BOOLEAN}
    /\ response = DefaultResponse
    /\ RequestIdle
    /\ LocaleIdle
    /\ ComponentsIdle
    /\ apc = "candidates"
    /\ candidates = <<>>
    /\ annotation_ids = <<>>

\* Lines 458-492: the pass returns at once without mapping table; else the
\* candidates of the last message, from its own annotations or from the
\* annotator's.
CollectCandidates ==
    /\ apc = "candidates"
    /\ LET last == conversation[Len(conversation)]
           invoked == AnnotatorInvoked(model_, conversation,
                                       annotator.supplied)
       IN  IF model_.annotation_mapping = <<>>
           THEN /\ apc' = "returned"
                /\ UNCHANGED <<candidates, annotator>>
           ELSE /\ \E annotated \in
                         IF invoked THEN AnnotatorResults ELSE {<<>>} :
                      /\ annotator' =
                            IF invoked
                            THEN [annotator EXCEPT
                                     !.calls = @ + 1,
                                     !.annotations = annotated]
                            ELSE annotator
                      /\ candidates' =
                            ActionAnnotations(
                                IF invoked THEN annotated
                                ELSE last.annotations,
                                last.text, Len(conversation) - 1)
                /\ apc' = "collected"
    /\ UNCHANGED <<model_, conversation, response, request_vars,
                   locale_vars, component_vars, annotation_ids>>

\* Lines 508-533: DeduplicateAnnotations on the candidates.
Deduplicate ==
    /\ apc = "collected"
    /\ annotation_ids' = DeduplicateAnnotations(candidates)
    /\ apc' = "deduplicated"
    /\ UNCHANGED <<model_, conversation, response, request_vars,
                   locale_vars, component_vars, candidates, annotator>>

\* DeduplicateAnnotations on the candidates it selected.
DeduplicateSelected ==
    /\ apc = "deduplicated"
    /\ LET selected ==
               [j \in 1..Len(annotation_ids) |->
                   candidates[annotation_ids[j]]]
       IN  /\ candidates' = selected
           /\ annotation_ids' = DeduplicateAnnotations(selected)
    /\ apc' = "again"
    /\ UNCHANGED <<model_, conversation, response, request_vars,
                   locale_vars, component_vars, annotator>>

\* The annotations the pass worked on (line 464-470).
UsedAnnotations ==
    IF annotator.calls > 0 THEN annotator.annotations
    ELSE conversation[Len(conversation)].annotations

\* Lines 455-506: the whole pass, appending to the response.
MapAnnotations ==
    /\ apc = "collected"
    /\ response' =
          [response EXCEPT !.actions = @ \o
              SuggestActionsFromAnnotations(
                  model_, WithAnnotations(conversation, UsedAnnotations))]
    /\ apc' = "mapped"
    /\ UNCHANGED <<model_, conversation, request_vars, locale_vars,
                   component_vars, candidates, annotation_ids, annotator>>

AnnotationNext ==
    \/ CollectCandidates
    \/ Deduplicate
    \/ DeduplicateSelected
    \/ MapAnnotations

AnnotationSpec == AnnotationInit /\ [][AnnotationNext]_vars

(***************************************************************************)
(* Properties of the annotation pass.                                      *)
(***************************************************************************)
\* The deduplication key of a candidate.
KeyOf(candidate) == <<candidate.name, candidate.text>>

\* The candidates of the group of `key`.
Group(key) == {i \in 1..Len(candidates) : KeyOf(candidates[i]) = key}

\* The first of the candidates of a group that have its highest score.
FirstOfHighest(key) ==
    CHOOSE i \in Group(key) :
        /\ \A j \in Group(key) :
              candidates[j].entity.score <= candidates[i].entity.score
        /\ \A j \in Group(key) :
              candidates[j].entity.score = candidates[i].entity.score
                  => i <= j

\* C18: DeduplicateAnnotations selects exactly one candidate of every
\* distinct (collection name, matched substring) key, the first in the
\* candidate list of those that have the highest score of the key.
C18_OneRepresentativePerKey ==
    apc = "deduplicated" =>
        /\ \A j \in 1..Len(annotation_ids) :
              annotation_ids[j] \in 1..Len(candidates)
        /\ \A i \in 1..Len(candidates) :
              LET key == KeyOf(candidates[i])
              IN  /\ Cardinality(
                        {j \in 1..Len(annotation_ids) :
                            KeyOf(candidates[annotation_ids[j]]) = key}) = 1
                  /\ \E j \in 1..Len(annotation_ids) :
                        annotation_ids[j] = FirstOfHighest(key)

\* Witness of C18: of three candidates of one key with scores 0.4, 0.8 and
\* 0.8, over different spans of the text, the second is selected.
C18_Witness ==
    /\ apc = "deduplicated" /\ Len(candidates) = 3
    /\ \A i \in 1..3 : KeyOf(candidates[i]) = KeyOf(candidates[1])
    /\ candidates[1].entity.score = 4
    /\ candidates[2].entity.score = 8
    /\ candidates[3].entity.score = 8
    /\ candidates[2].span # candidates[3].span
    /\ annotation_ids = <<2>>

\* The elements of a sequence.
Range(s) == {s[i] : i \in 1..Len(s)}

\* The candidates of the last message, as collected.
CollectedCandidates ==
    ActionAnnotations(conversation[1].annotations, conversation[1].text, 0)

\* C19: DeduplicateAnnotations applied to the candidates it selected
\* returns every one of them, so the representatives selected after two
\* applications are those selected after one.
C19_DeduplicationIdempotent ==
    apc = "again" =>
        /\ Len(annotation_ids) = Len(candidates)
        /\ Range(annotation_ids) = 1..Len(candidates)
        /\ {candidates[annotation_ids[j]] : j \in 1..Len(annotation_ids)}
              = Range(candidates)

\* Witness of C19: the first application dropped one of three candidates
\* and the second returned the two selected.
C19_Witness ==
    /\ apc = "again"
    /\ Len(CollectedCandidates) = 3
    /\ Len(candidates) = 2
    /\ Len(annotation_ids) = 2

\* The candidate each action of the response was made from.
ActionSources ==
    [i \in 1..Len(response.actions) |-> response.actions[i].annotations[1]]

\* An entry of the mapping table takes the candidate: the collections are
\* equal and the score is not below the entry's minimum.
EntryMatches(entry, candidate) ==
    /\ entry.annotation_collection = candidate.entity.collection
    /\ entry.min_annotation_score <= candidate.entity.score

\* The pairs <<candidate, mapping entry>>, by candidate and then by entry.
MappingPairs ==
    LET k == Len(model_.annotation_mapping)
    IN  [p \in 1..(Len(candidates) * k) |->
            <<((p - 1) \div k) + 1, ((p - 1) % k) + 1>>]

PairMatches(pair) ==
    EntryMatches(model_.annotation_mapping[pair[2]], candidates[pair[1]])

\* The pairs whose entry takes the candidate, in that order.
MatchingPairs == SelectSeq(MappingPairs, PairMatches)

\* C20: with deduplicate_annotations off every candidate is mapped on its
\* own, in annotation order, so that candidates of one key each give their
\* actions; with it on the actions of one key all come from one candidate.
C20_DeduplicationOnlyIfConfigured ==
    apc = "mapped" =>
        IF model_.deduplicate_annotations
        THEN /\ \A i, j \in 1..Len(ActionSources) :
                   KeyOf(ActionSources[i]) = KeyOf(ActionSources[j])
                       => ActionSources[i] = ActionSources[j]
             /\ Range(ActionSources) \subseteq Range(candidates)
        ELSE ActionSources =
                 [p \in 1..Len(MatchingPairs) |->
                     candidates[MatchingPairs[p][1]]]

\* Witness of C20: with deduplication off, two candidates of the same
\* collection and substring, with different scores, each gave an action.
C20_Witness ==
    /\ apc = "mapped" /\ ~model_.deduplicate_annotations
    /\ Len(response.actions) >= 2
    /\ KeyOf(ActionSources[1]) = KeyOf(ActionSources[2])
    /\ response.actions[1].score # response.actions[2].score

\* C21: the actions made from the candidates, mapped one by one, are, for
\* each candidate in turn, one action for every entry of the mapping table
\* that has the candidate's collection and a minimum not above its score,
\* in the order of the table; each has the entry's action type, the
\* candidate's score if use_annotation_score is set and the entry's static
\* score if not, the candidate as its only annotation, the entry's
\* serialized entity data, and no response text.
C21_OneActionPerMatchingEntry ==
    (apc = "mapped" /\ ~model_.deduplicate_annotations) =>
        /\ Len(response.actions) = Len(MatchingPairs)
        /\ \A p \in 1..Len(MatchingPairs) :
              LET candidate == candidates[MatchingPairs[p][1]]
                  entry == model_.annotation_mapping[MatchingPairs[p][2]]
                  action == response.actions[p]
              IN  /\ action.type = entry.action.type
                  /\ action.score =
                         IF entry.use_annotation_score
                         THEN candidate.entity.score
                         ELSE entry.action.score
                  /\ action.annotations = <<candidate>>
                  /\ action.serialized_entity_data =
                         entry.action.serialized_entity_data
                  /\ action.response_text = <<>>

\* Witness of C21: a date of score 0.8 met both date entries of the table
\* and gave two actions, the first with its own score and the second with
\* the entry's score and payload; the phone entry gave none.
C21_Witness ==
    /\ apc = "mapped" /\ ~model_.deduplicate_annotations
    /\ model_.annotation_mapping = LongAnnotationMapping
    /\ Len(candidates) = 1
    /\ Len(response.actions) = 2
    /\ response.actions[1].type = "view_calendar"
    /\ response.actions[1].score = 8
    /\ response.actions[2].type = "create_event"
    /\ response.actions[2].score = 3
    /\ response.actions[2].serialized_entity_data = <<"payload">>

HasClassification(annotation) == annotation.classification # <<>>

\* C22: the candidates are the annotations with a classification, in
\* order, each with the collection and score of its first classification;
\* every action comes from such a candidate, through a mapping entry of
\* that first collection.
C22_FirstClassificationOnly ==
    apc \in {"collected", "mapped"} =>
        LET classified == SelectSeq(UsedAnnotations, HasClassification)
        IN  /\ Len(candidates) = Len(classified)
            /\ \A i \in 1..Len(classified) :
                  /\ candidates[i].entity = classified[i].classification[1]
                  /\ candidates[i].name =
                         classified[i].classification[1].collection
                  /\ candidates[i].span = classified[i].span
            /\ \A i \in 1..Len(response.actions) :
                  /\ ActionSources[i] \in Range(candidates)
                  /\ \E k \in 1..Len(model_.annotation_mapping) :
                        /\ model_.annotation_mapping[k].action.type =
                               response.actions[i].type
                        /\ model_.annotation_mapping[k].annotation_collection
                               = ActionSources[i].entity.collection

\* Witness of C22: an annotation whose first classification is a date of
\* score 0.4 and whose second is a phone number of score 0.8 gave a date
\* candidate and, under a table that maps phone numbers, no action.
C22_Witness ==
    /\ apc = "mapped"
    /\ model_.annotation_mapping = LongAnnotationMapping
    /\ Len(UsedAnnotations) = 1
    /\ Len(UsedAnnotations[1].classification) = 2
    /\ UsedAnnotations[1].classification[2].collection = "phone"
    /\ Len(candidates) = 1
    /\ candidates[1].name = "date"
    /\ response.actions = <<>>

\* C23: Annotate runs at most once in a pass, and only for a last message
\* without annotations, with an annotator given and a mapping table with
\* entries; a message that carries annotations is mapped from them.
C23_AnnotatorOnlyWithoutAnnotations ==
    LET last == conversation[Len(conversation)]
    IN  apc # "idle" =>
            /\ annotator.calls <= 1
            /\ annotator.calls = 1 =>
                  /\ last.annotations = <<>>
                  /\ annotator.supplied
                  /\ model_.annotation_mapping # <<>>
            /\ last.annotations # <<>> =>
                  /\ annotator.calls = 0
                  /\ apc \in {"collected", "mapped"} =>
                        Len(candidates) =
                            Len(SelectSeq(last.annotations,
                                          HasClassification))

\* Witness of C23: the annotator was called once for a message without
\* annotations, and its annotation gave an action.
C23_Witness ==
    /\ apc = "mapped"
    /\ conversation[1].annotations = <<>>
    /\ annotator.supplied /\ annotator.calls = 1
    /\ annotator.annotations # <<>>
    /\ response.actions # <<>>

(***************************************************************************)
(* The rule pass taken alone, run by two requests on one engine, one       *)
(* iteration of its loops at a time.  The engine's model_ and rules_ are   *)
(* shared and only read; each request has its conversation, its response   *)
(* and its position in the pass, and each regex matcher has a cursor.      *)
(***************************************************************************)
Requests == {1, 2}

\* A rule of two action specs, the first with a response text.
TwoActionRule(c) ==
    [pattern |-> Pattern(c, FALSE),
     actions |-> <<[action |-> [ActionSpec("text_reply", 9) EXCEPT
                                   !.response_text = <<"o", "k">>],
                    capturing_group |-> <<>>],
                   [action |-> ActionSpec("rule_a", 4),
                    capturing_group |-> <<>>]>>]

\* A rule of two action specs, the second with a capturing group.
GroupAfterPlainRule(c, field) ==
    [pattern |-> Pattern(c, FALSE),
     actions |-> <<[action |-> ActionSpec("rule_a", 9),
                    capturing_group |-> <<>>],
                   [action |-> ActionSpec("rule_b", 7),
                    capturing_group |->
                        <<[group_id |-> 0, entity_field |-> field]>>]>>]

\* Compiled rule sets: two action specs; a matcher that reports an error;
\* a capturing group whose field the schema types otherwise; a capturing
\* group that fits; a capturing group that fails after an action spec of
\* the same rule.
CompiledRuleSets ==
    {<<TwoActionRule("a"), PlainRule("b", FALSE, "rule_b")>>,
     <<PlainRule("b", FALSE, "rule_b"), GroupAfterPlainRule("a", "count")>>,
     <<PlainRule("a", TRUE, "rule_a"), PlainRule("b", FALSE, "rule_b")>>,
     <<PlainRule("a", FALSE, "rule_a"),
       CapturingRule("b", "count", "rule_b")>>,
     <<CapturingRule("a", "name", "rule_a")>>}

RuleMessage(t) ==
    [text |-> t, locales |-> [parsed |-> FALSE, list |-> <<>>],
     annotations |-> <<>>]

\* One message, or an earlier message "a" before the last one.
RuleConversations ==
    {<<RuleMessage(t)>> :
        t \in {<<>>, <<"a">>, <<"a", "a">>, <<"a", "b">>, <<"b", "a">>}}
    \cup
    {<<RuleMessage(<<"a">>), RuleMessage(t)>> : t \in {<<>>, <<"b">>}}

\* The actions the response holds when the rule pass starts: none, or one
\* of an earlier pass.
PriorActions ==
    {<<>>,
     <<ActionSuggestion(<<>>, "share_location", 8, <<>>, <<>>, "model")>>}

\* Lines 584-586: the matcher is a local of the call, made for each rule.
\* Faulty variant: one matcher, kept by the engine, serves every call.
MatcherOwner_Engine(r) == 1

MatcherOwner(r) == r

\* `prior` and `overlapped` are history: the actions the response started
\* with, and whether the request took a step while the other request was
\* inside its pass.
NewRequest(conv, prior) ==
    [conversation |-> conv,
     prior |-> prior,
     response |-> [DefaultResponse EXCEPT !.actions = prior],
     pc |-> "rule",
     rule |-> 1,
     result |-> "none",
     overlapped |-> FALSE]

RuleInit ==
    /\ model_ = BaseModel
    /\ rules_ \in CompiledRuleSets
    /\ requests \in [Requests ->
                       {NewRequest(conv, prior) :
                           conv \in RuleConversations,
                           prior \in PriorActions}]
    /\ matcher = [r \in Requests |-> 0]
    /\ conversation = <<>>
    /\ response = DefaultResponse
    /\ low_confidence_rules_ = <<>>
    /\ pc = "idle"
    /\ num_messages = 0
    /\ gather_result = "none"
    /\ rank_result = "none"
    /\ stopped_at = "idle"
    /\ calls = NoCalls
    /\ LocaleIdle
    /\ AnnotationIdle
    /\ FactoryIdle
    /\ TrieIdle
    /\ RecordIdle
    /\ ModelCallIdle

\* Some other request is inside its pass.
OtherInside(r) ==
    \E o \in Requests \ {r} :
        /\ requests[o].pc # "done"
        /\ requests[o].pc # "rule" \/ requests[o].rule > 1

\* Lines 584-586 and 635: the next rule's matcher is made on the text of
\* the last message, or the rules are exhausted and the pass returns true.
NewMatcher(r) ==
    /\ requests[r].pc = "rule"
    /\ IF requests[r].rule > Len(rules_)
       THEN /\ requests' = [requests EXCEPT
                               ![r].pc = "done",
                               ![r].result = "true",
                               ![r].overlapped = @ \/ OtherInside(r)]
            /\ UNCHANGED matcher
       ELSE /\ matcher' = [matcher EXCEPT ![MatcherOwner(r)] = 1]
            /\ requests' = [requests EXCEPT
                               ![r].pc = "find",
                               ![r].overlapped = @ \/ OtherInside(r)]
    /\ UNCHANGED <<model_, conversation, response, request_vars,
                   locale_vars, annotation_vars, factory_vars, trie_vars,
                   record_vars, model_call>>

\* Lines 589-633: one iteration of the match loop of the current rule.  A
\* capturing group that cannot be set ends the pass with false (line 617);
\* the actions of the action specs before it were pushed already (624).
FindNext(r) ==
    /\ requests[r].pc = "find"
    /\ LET rule == rules_[requests[r].rule]
           conv == requests[r].conversation
           text == conv[Len(conv)].text
           f == Find(rule.pattern, text, matcher[MatcherOwner(r)])
       IN  IF f.found /\ f.status = kNoError
           THEN LET a == ActionsForMatch(model_, rule.actions,
                                         HasEntityData(rule),
                                         <<text[f.at]>>)
                IN  /\ matcher' = [matcher EXCEPT
                                      ![MatcherOwner(r)] = f.at + 1]
                    /\ requests' =
                          IF a.ok
                          THEN [requests EXCEPT
                                   ![r].response.actions = @ \o a.actions,
                                   ![r].overlapped = @ \/ OtherInside(r)]
                          ELSE [requests EXCEPT
                                   ![r].response.actions = @ \o a.actions,
                                   ![r].pc = "done",
                                   ![r].result = "false",
                                   ![r].overlapped = @ \/ OtherInside(r)]
           ELSE /\ requests' = [requests EXCEPT
                                   ![r].pc = "rule",
                                   ![r].rule = @ + 1,
                                   ![r].overlapped = @ \/ OtherInside(r)]
                /\ UNCHANGED matcher
    /\ UNCHANGED <<model_, conversation, response, request_vars,
                   locale_vars, annotation_vars, factory_vars, trie_vars,
                   record_vars, model_call>>

RuleNext ==
    \E r \in Requests :
        \/ NewMatcher(r)
        \/ FindNext(r)

RuleSpec == RuleInit /\ [][RuleNext]_vars

(***************************************************************************)
(* Properties of the rule pass.                                            *)
(***************************************************************************)
\* The text of the last message of a request.
RuleText(r) ==
    requests[r].conversation[Len(requests[r].conversation)].text

\* The actions a request's rule pass appended.
Appended(r) ==
    SubSeq(requests[r].response.actions, Len(requests[r].prior) + 1,
           Len(requests[r].response.actions))

\* The pairs <<rule, action spec>> of every match of every rule on a text,
\* by rule, then by match, then by action spec; a match of a rule is an
\* occurrence of its pattern in the text.
MatchedSpecs(text) ==
    Concat([j \in 1..Len(rules_) |->
        Concat([i \in 1..Len(text) |->
            IF text[i] = rules_[j].pattern.ch
            THEN [k \in 1..Len(rules_[j].actions) |-> <<j, k>>]
            ELSE <<>>])])

\* C24: a rule pass that returned true appended one action for every match
\* of every rule on the text of the last message and every action spec of
\* the rule, by rule, match and action spec, each with the response text,
\* type and score of its action spec, no annotations and, for a rule
\* without entity data, no payload.
C24_OneActionPerMatchAndSpec ==
    \A r \in DOMAIN requests :
        requests[r].result = "true" =>
            LET expected == MatchedSpecs(RuleText(r))
            IN  /\ Len(Appended(r)) = Len(expected)
                /\ \A p \in 1..Len(expected) :
                      LET rule == rules_[expected[p][1]]
                          spec == rule.actions[expected[p][2]].action
                          action == Appended(r)[p]
                      IN  /\ action.response_text = spec.response_text
                          /\ action.type = spec.type
                          /\ action.score = spec.score
                          /\ action.annotations = <<>>
                          /\ ~HasEntityData(rule) =>
                                action.serialized_entity_data = <<>>

\* The same for the rules whose matcher reports no error: what holds of
\* C24 in the code.
C24_WithoutMatcherError ==
    \A r \in DOMAIN requests :
        (/\ requests[r].result = "true"
         /\ \A j \in 1..Len(rules_) : ~rules_[j].pattern.overflows) =>
            LET expected == MatchedSpecs(RuleText(r))
            IN  /\ Len(Appended(r)) = Len(expected)
                /\ \A p \in 1..Len(expected) :
                      LET rule == rules_[expected[p][1]]
                          spec == rule.actions[expected[p][2]].action
                          action == Appended(r)[p]
                      IN  /\ action.response_text = spec.response_text
                          /\ action.type = spec.type
                          /\ action.score = spec.score
                          /\ action.annotations = <<>>
                          /\ ~HasEntityData(rule) =>
                                action.serialized_entity_data = <<>>

\* Both requests were given the same conversation and the same response.
SameInput ==
    /\ requests[1].conversation = requests[2].conversation
    /\ requests[1].prior = requests[2].prior

\* C25: two rule passes on the same conversation and rules, from equal
\* responses, return the same value and leave equal responses.
C25_RulePassDeterministic ==
    (/\ requests # <<>>
     /\ SameInput
     /\ requests[1].pc = "done"
     /\ requests[2].pc = "done") =>
        /\ requests[1].result = requests[2].result
        /\ requests[1].response = requests[2].response

\* Witness of C25: both passes on "aa" appended four actions to a response
\* that held one.
C25_Witness ==
    /\ requests # <<>>
    /\ SameInput
    /\ requests[1].pc = "done" /\ requests[2].pc = "done"
    /\ RuleText(1) = <<"a", "a">>
    /\ requests[1].prior # <<>>
    /\ Len(Appended(1)) = 4
    /\ requests[1].response = requests[2].response

\* C26: under every interleaving, a request's rule pass returns what
\* SuggestActionsFromRules returns for its conversation alone and has
\* appended the same actions, also when it returns false.
C26_RequestsDoNotInterfere ==
    \A r \in DOMAIN requests :
        requests[r].pc = "done" =>
            LET alone == SuggestActionsFromRules(model_, rules_, RuleText(r))
            IN  /\ requests[r].result = "true" <=> alone.ok
                /\ requests[r].response.actions =
                       requests[r].prior \o alone.actions

\* Witness of C26: two requests on different texts, each of which took
\* steps while the other was inside its pass, and each with its own
\* actions.
C26_Witness ==
    /\ requests # <<>>
    /\ requests[1].pc = "done" /\ requests[2].pc = "done"
    /\ requests[1].overlapped /\ requests[2].overlapped
    /\ RuleText(1) = <<"a", "a">> /\ RuleText(2) = <<"b", "a">>
    /\ requests[1].result = "true" /\ requests[2].result = "true"
    /\ Len(Appended(1)) = 4
    /\ Len(Appended(2)) = 3

(***************************************************************************)
(* Initialization (FromUnownedBuffer, ValidateAndInitialize,               *)
(* InitializeRules).  A model buffer is described by what it holds and by  *)
(* what the collaborators of initialization make of it: whether the        *)
(* verifier accepts it, the locale list parses, the executor loads, each   *)
(* pattern compiles, the schema verifies and the ranker is created.        *)
(***************************************************************************)
MaxRules == 2

\* A rule set of the buffer: absent, or one flag per rule, whether
\* UncompressMakeRegexPattern compiles its pattern.
BufferRuleSets ==
    {[present |-> FALSE, compiles |-> <<>>]} \cup
    {[present |-> TRUE, compiles |-> c] : c \in SeqsUpTo(BOOLEAN, MaxRules)}

\* `source`: the bytes are an unowned buffer (FromUnownedBuffer), or a
\* mapping whose handle is ok or is not (FromScopedMmap, and through it
\* FromFileDescriptor and FromPath, which map the file and call it).
\* `first_rule_has_entity_data`: the first primary rule has an action with
\* static entity data or a capturing group (HasEntityData, lines 566-575).
ModelBuffers ==
    {b \in [source : {"buffer", "mmap", "mmap_failed"},
            verifies : BOOLEAN,
            preconditions : BOOLEAN,
            locales : {"absent", "parses", "fails"},
            tflite_model_spec : {"absent", "loads", "fails"},
            rules : BufferRuleSets,
            first_rule_has_entity_data : BOOLEAN,
            suppress_on_low_confidence_input : BOOLEAN,
            low_confidence_rules : BufferRuleSets,
            actions_entity_data_schema : {"absent", "loads", "fails"},
            ranker : BOOLEAN] :
        b.first_rule_has_entity_data => Len(b.rules.compiles) > 0}

\* new ActionsSuggestions(): the members before initialization.  A rule
\* list holds the indices of the rules compiled so far.
NewActionsSuggestions ==
    [model_ |-> FALSE,
     mmap_ |-> FALSE,
     locales_ |-> FALSE,
     model_executor_ |-> FALSE,
     rules_ |-> <<>>,
     low_confidence_rules_ |-> <<>>,
     entity_data_builder_ |-> FALSE,
     ranker_ |-> FALSE]

\* Faulty variant: a pattern that fails to compile is skipped.
RECURSIVE InitializeRuleSet_SkipsFailed(_, _, _)
InitializeRuleSet_SkipsFailed(compiles, i, compiled_rules) ==
    IF i > Len(compiles) THEN [ok |-> TRUE, compiled_rules |-> compiled_rules]
    ELSE IF ~compiles[i]
    THEN InitializeRuleSet_SkipsFailed(compiles, i + 1, compiled_rules)
    ELSE InitializeRuleSet_SkipsFailed(compiles, i + 1,
                                       Append(compiled_rules, i))

\* Lines 207-223: the rules are compiled in order into compiled_rules; the
\* first pattern that fails ends the loop with false.
RECURSIVE InitializeRuleSet(_, _, _)
InitializeRuleSet(compiles, i, compiled_rules) ==
    IF i > Len(compiles) THEN [ok |-> TRUE, compiled_rules |-> compiled_rules]
    ELSE IF ~compiles[i]
    THEN [ok |-> FALSE, compiled_rules |-> compiled_rules]
    ELSE InitializeRuleSet(compiles, i + 1, Append(compiled_rules, i))

\* Lines 187-205: the primary rules if present, then the low-confidence
\* rules if suppress_on_low_confidence_input is set and they are present.
InitializeRules(buffer, object) ==
    LET primary == IF buffer.rules.present
                   THEN InitializeRuleSet(buffer.rules.compiles, 1,
                                          object.rules_)
                   ELSE [ok |-> TRUE, compiled_rules |-> object.rules_]
        with_primary == [object EXCEPT !.rules_ = primary.compiled_rules]
    IN  IF ~primary.ok THEN [ok |-> FALSE, object |-> with_primary]
        ELSE IF /\ buffer.suppress_on_low_confidence_input
                /\ buffer.low_confidence_rules.present
        THEN LET low == InitializeRuleSet(
                            buffer.low_confidence_rules.compiles, 1,
                            object.low_confidence_rules_)
             IN  [ok |-> low.ok,
                  object |-> [with_primary EXCEPT
                                 !.low_confidence_rules_ =
                                     low.compiled_rules]]
        ELSE [ok |-> TRUE, object |-> with_primary]

\* Lines 131-185: the members set up to the first failure, and whether
\* there was none.
ValidateAndInitialize(buffer, object) ==
    IF ~object.model_ THEN [ok |-> FALSE, object |-> object]
    ELSE IF ~buffer.preconditions THEN [ok |-> FALSE, object |-> object]
    ELSE IF buffer.locales = "fails" THEN [ok |-> FALSE, object |-> object]
    ELSE LET with_locales ==
                 [object EXCEPT !.locales_ = buffer.locales = "parses"]
         IN  IF buffer.tflite_model_spec = "fails"
             THEN [ok |-> FALSE, object |-> with_locales]
             ELSE LET with_executor ==
                          [with_locales EXCEPT
                              !.model_executor_ =
                                  buffer.tflite_model_spec = "loads"]
                      with_rules == InitializeRules(buffer, with_executor)
                  IN  IF ~with_rules.ok THEN with_rules
                      ELSE IF buffer.actions_entity_data_schema = "fails"
                      THEN [ok |-> FALSE, object |-> with_rules.object]
                      ELSE LET with_schema ==
                                   [with_rules.object EXCEPT
                                       !.entity_data_builder_ =
                                           buffer.actions_entity_data_schema
                                               = "loads"]
                           IN  IF ~buffer.ranker
                               THEN [ok |-> FALSE, object |-> with_schema]
                               ELSE [ok |-> TRUE,
                                     object |-> [with_schema EXCEPT
                                                    !.ranker_ = TRUE]]

\* What FromUnownedBuffer has done so far: `returned` is "none" during the
\* call, then "nullptr" or "engine"; `object` is the ActionsSuggestions it
\* made, kept here after the call as history.  `rule_pass` is how a rule
\* pass on the engine ended, "none" before there was one.
FactoryInit ==
    /\ model_buffer \in ModelBuffers
    /\ engine = [pc |-> "new", returned |-> "none",
                 object |-> NewActionsSuggestions, rule_pass |-> "none"]
    /\ model_ = BaseModel
    /\ conversation = <<>>
    /\ response = DefaultResponse
    /\ RequestIdle
    /\ LocaleIdle
    /\ AnnotationIdle
    /\ RuleIdle
    /\ TrieIdle
    /\ RecordIdle
    /\ ModelCallIdle

\* Lines 79-82: FromScopedMmap returns nullptr for a mapping whose handle
\* is not ok, before anything is read.
FromScopedMmap ==
    /\ engine.pc = "new"
    /\ model_buffer.source # "buffer"
    /\ engine' =
          IF model_buffer.source = "mmap"
          THEN [engine EXCEPT !.pc = "mapped"]
          ELSE [engine EXCEPT !.pc = "returned", !.returned = "nullptr"]
    /\ UNCHANGED <<model_, conversation, response, request_vars,
                   locale_vars, annotation_vars, rule_vars, model_buffer,
                   trie_vars, record_vars, model_call>>

\* Lines 64-69 and 83-92 (and 51-58): the bytes are verified; bytes the
\* verifier rejects give nullptr.  The mapping is kept by the object.
LoadAndVerifyModel ==
    /\ \/ engine.pc = "new" /\ model_buffer.source = "buffer"
       \/ engine.pc = "mapped"
    /\ engine' =
          IF model_buffer.verifies
          THEN [engine EXCEPT !.pc = "loaded", !.object.model_ = TRUE,
                              !.object.mmap_ = model_buffer.source = "mmap"]
          ELSE [engine EXCEPT !.pc = "returned", !.returned = "nullptr"]
    /\ UNCHANGED <<model_, conversation, response, request_vars,
                   locale_vars, annotation_vars, rule_vars, model_buffer,
                   trie_vars, record_vars, model_call>>

\* Lines 70-74: the object is returned if ValidateAndInitialize succeeds,
\* and nullptr if it fails.
Initialize ==
    /\ engine.pc = "loaded"
    /\ LET v == ValidateAndInitialize(model_buffer, engine.object)
       IN  engine' = [pc |-> "returned",
                      returned |-> IF v.ok THEN "engine" ELSE "nullptr",
                      object |-> v.object, rule_pass |-> "none"]
    /\ UNCHANGED <<model_, conversation, response, request_vars,
                   locale_vars, annotation_vars, rule_vars, model_buffer,
                   trie_vars, record_vars, model_call>>

\* Lines 588-599 on the engine returned, for a last message that the first
\* compiled rule matches: with entity data in the rule, line 596 checks
\* the builder and the process is aborted when there is none.
FirstRuleMatches ==
    /\ engine.pc = "returned"
    /\ engine.returned = "engine"
    /\ Len(engine.object.rules_) > 0
    /\ engine' =
          [engine EXCEPT
              !.pc = "requested",
              !.rule_pass =
                  IF /\ model_buffer.first_rule_has_entity_data
                     /\ ~engine.object.entity_data_builder_
                  THEN "aborted" ELSE "completed"]
    /\ UNCHANGED <<model_, conversation, response, request_vars,
                   locale_vars, annotation_vars, rule_vars, model_buffer,
                   trie_vars, record_vars, model_call>>

FactoryNext ==
    \/ FromScopedMmap
    \/ LoadAndVerifyModel
    \/ Initialize
    \/ FirstRuleMatches

FactorySpec == FactoryInit /\ [][FactoryNext]_vars

(***************************************************************************)
(* Properties of initialization.                                           *)
(***************************************************************************)
\* Every pattern of a rule set of the buffer compiles.
AllCompile(rule_set) ==
    \A i \in 1..Len(rule_set.compiles) : rule_set.compiles[i]

\* What has to succeed whatever the settings.
BufferInitializes ==
    /\ model_buffer.source # "mmap_failed"
    /\ model_buffer.verifies
    /\ model_buffer.preconditions
    /\ model_buffer.locales # "fails"
    /\ model_buffer.tflite_model_spec # "fails"
    /\ AllCompile(model_buffer.rules)
    /\ model_buffer.actions_entity_data_schema # "fails"
    /\ model_buffer.ranker

\* C27, as claimed: an engine is returned only if the model verifies, the
\* preconditions are present, the locale list parses, the executor loads,
\* every pattern of the primary and of the low-confidence rules compiles,
\* the schema loads and the ranker is created.
C27_EngineOnlyIfEverythingLoads ==
    engine.returned = "engine" =>
        /\ BufferInitializes
        /\ AllCompile(model_buffer.low_confidence_rules)

\* C27, amended: the same, the patterns of the low-confidence rules
\* counting only when suppress_on_low_confidence_input is set; and the
\* engine returned has every member initialization was to set, with every
\* rule it was to compile.
C27_EngineOnlyIfEverythingUsedLoads ==
    /\ engine.returned = "engine" =>
          /\ BufferInitializes
          /\ model_buffer.suppress_on_low_confidence_input =>
                AllCompile(model_buffer.low_confidence_rules)
          /\ engine.object.model_ /\ engine.object.ranker_
          /\ engine.object.mmap_ <=> model_buffer.source = "mmap"
          /\ engine.object.locales_ <=> model_buffer.locales = "parses"
          /\ engine.object.model_executor_ <=>
                model_buffer.tflite_model_spec = "loads"
          /\ engine.object.entity_data_builder_ <=>
                model_buffer.actions_entity_data_schema = "loads"
          /\ Len(engine.object.rules_) = Len(model_buffer.rules.compiles)
          /\ model_buffer.suppress_on_low_confidence_input =>
                Len(engine.object.low_confidence_rules_) =
                    Len(model_buffer.low_confidence_rules.compiles)
    /\ engine.pc \in {"returned", "requested"} =>
          engine.returned \in {"engine", "nullptr"}

\* Witness of C27: everything loads but the second primary pattern; the
\* first rule had been compiled, and nullptr was returned.
C27_Witness ==
    /\ engine.returned = "nullptr"
    /\ model_buffer.verifies /\ model_buffer.preconditions
    /\ model_buffer.locales = "parses"
    /\ model_buffer.tflite_model_spec = "loads"
    /\ model_buffer.rules.compiles = <<TRUE, FALSE>>
    /\ AllCompile(model_buffer.low_confidence_rules)
    /\ model_buffer.actions_entity_data_schema = "loads"
    /\ model_buffer.ranker
    /\ engine.object.rules_ = <<1>>

(***************************************************************************)
(* The double-array trie (GatherPrefixMatches, FindAllPrefixMatches,       *)
(* LongestPrefixMatch).  A node is one word that combines its label, its   *)
(* leaf flag and its offset, and is given here by these three; value, the  *)
(* id of a leaf, is the word itself.  The input is a sequence of bytes.    *)
(***************************************************************************)
MaxNodes == 2
MaxInput == 2

\* pos ^= x on unsigned int.
RECURSIVE Xor(_, _)
Xor(a, b) ==
    IF a = 0 THEN b
    ELSE IF b = 0 THEN a
    ELSE (((a % 2) + (b % 2)) % 2) + (2 * Xor(a \div 2, b \div 2))

TrieNodes == [label : {1, 2}, has_leaf : BOOLEAN, offset : 0..3]

TrieInputs == SeqsUpTo(0..2, MaxInput)

\* What the read of nodes_[nodes_length_], one past the array, may do: it
\* is outside the array, so the process may be killed in it (the memory
\* behind the array is not mapped), or it gives any word whatever, since
\* what lies behind the array is not the trie's.  The words are bounded
\* here by MaxWord; the traversal copies the word into the match and
\* never looks at it.
MaxWord == 7

WordRead(word) == [killed |-> FALSE, word |-> word]

OutOfBoundsValues ==
    {WordRead(word) : word \in 0..MaxWord}
        \cup {[killed |-> TRUE, word |-> 0]}

TrieMatch(id, match_length) == [id |-> id, match_length |-> match_length]

\* The accessors of node i (from 0).  The word of a node holds the label
\* in its low byte, the leaf flag above it and the offset from bit 10 on.
\* value reads past the array for i = nodes_length_ and gives the word of
\* `beyond`, unless the process is killed in that read (GatherLoop).
offset(nodes, i) == nodes[i + 1].offset

label(nodes, i) == nodes[i + 1].label

has_leaf(nodes, i) == nodes[i + 1].has_leaf

value(nodes, i, beyond) ==
    IF i < Len(nodes)
    THEN nodes[i + 1].label
             + (IF nodes[i + 1].has_leaf THEN 256 ELSE 0)
             + (1024 * nodes[i + 1].offset)
    ELSE beyond.word

\* Lines 565-575 and 591: the loop ends by break, or at the end of the
\* input, and the call returns true.  `stop` is history: the statement
\* that ended the loop; `at_length` is history: the match lengths at which
\* the position after the offset was nodes_length_.
Finish(emitted, stop, at_length) ==
    [ok |-> TRUE, emitted |-> emitted, stop |-> stop,
     at_length |-> at_length]

\* Lines 564-590: the loop from input byte i (from 1) at position pos.
RECURSIVE GatherLoop(_, _, _, _, _, _, _)
GatherLoop(nodes, input, i, pos, emitted, at_length, beyond) ==
    IF i > Len(input) THEN Finish(emitted, "end", at_length)
    ELSE IF input[i] = 0 THEN Finish(emitted, "zero", at_length)
    ELSE LET at == Xor(pos, input[i])
         IN  IF at >= Len(nodes)
             THEN Finish(emitted, "exhausted", at_length)
             ELSE IF label(nodes, at) # input[i]
             THEN Finish(emitted, "mismatch", at_length)
             ELSE LET node_has_leaf == has_leaf(nodes, at)
                      next == Xor(at, offset(nodes, at))
                      lengths == IF next = Len(nodes)
                                 THEN at_length \cup {i} ELSE at_length
                  IN  IF next > Len(nodes)
                      THEN [ok |-> FALSE, emitted |-> emitted,
                            stop |-> "corrupt", at_length |-> lengths]
                      ELSE IF /\ node_has_leaf
                              /\ next = Len(nodes)
                              /\ beyond.killed
                      THEN [ok |-> FALSE, emitted |-> emitted,
                            stop |-> "killed", at_length |-> lengths]
                      ELSE GatherLoop(
                               nodes, input, i + 1, next,
                               IF node_has_leaf
                               THEN Append(emitted,
                                        TrieMatch(value(nodes, next, beyond),
                                                  i))
                               ELSE emitted,
                               lengths, beyond)

\* Lines 556-592: the matches handed to update_fn, in order, and the
\* return value.
GatherPrefixMatches(nodes, input, beyond) ==
    IF Len(nodes) = 0 THEN Finish(<<>>, "empty", {})
    ELSE GatherLoop(nodes, input, 1, offset(nodes, 0), <<>>, {}, beyond)

\* Lines 600-605: *longest_match after the updates.
LongestOf(emitted) ==
    IF emitted = <<>> THEN NoTrieMatch ELSE emitted[Len(emitted)]

TrieInit ==
    /\ nodes_ \in SeqsUpTo(TrieNodes, MaxNodes)
    /\ trie_call = NoTrieCall
    /\ model_ = BaseModel
    /\ conversation = <<>>
    /\ response = DefaultResponse
    /\ RequestIdle
    /\ LocaleIdle
    /\ AnnotationIdle
    /\ RuleIdle
    /\ FactoryIdle
    /\ RecordIdle
    /\ ModelCallIdle

\* The words the call may read past the array: a word is chosen only for
\* a traversal that reads there.
ReadsPastArray(nodes, input) ==
    LET g == GatherPrefixMatches(nodes, input, WordRead(0))
    IN  \E k \in 1..Len(g.emitted) :
            g.emitted[k].match_length \in g.at_length

WordsRead(nodes, input) ==
    IF ReadsPastArray(nodes, input) THEN OutOfBoundsValues
    ELSE {WordRead(0)}

\* Lines 594-598: the matches are pushed to the caller's vector.
FindAllPrefixMatches ==
    /\ trie_call.fn = "none"
    /\ \E input \in TrieInputs :
       \E beyond \in WordsRead(nodes_, input) :
          LET g == GatherPrefixMatches(nodes_, input, beyond)
          IN  trie_call' = [fn |-> "FindAllPrefixMatches",
                            input |-> input,
                            ok |-> g.ok,
                            matches |-> g.emitted,
                            longest_match |-> NoTrieMatch,
                            emitted |-> g.emitted,
                            stop |-> g.stop,
                            at_length |-> g.at_length]
    /\ UNCHANGED <<model_, conversation, response, request_vars,
                   locale_vars, annotation_vars, rule_vars, factory_vars,
                   nodes_, record_vars, model_call>>

\* Lines 600-606: the caller's match is reset and then overwritten by
\* every match.
LongestPrefixMatch ==
    /\ trie_call.fn = "none"
    /\ \E input \in TrieInputs :
       \E beyond \in WordsRead(nodes_, input) :
          LET g == GatherPrefixMatches(nodes_, input, beyond)
          IN  trie_call' = [fn |-> "LongestPrefixMatch",
                            input |-> input,
                            ok |-> g.ok,
                            matches |-> <<>>,
                            longest_match |-> LongestOf(g.emitted),
                            emitted |-> g.emitted,
                            stop |-> g.stop,
                            at_length |-> g.at_length]
    /\ UNCHANGED <<model_, conversation, response, request_vars,
                   locale_vars, annotation_vars, rule_vars, factory_vars,
                   nodes_, record_vars, model_call>>

TrieNext ==
    \/ FindAllPrefixMatches
    \/ LongestPrefixMatch

TrieSpec == TrieInit /\ [][TrieNext]_vars

(***************************************************************************)
(* Properties of the trie.                                                 *)
(***************************************************************************)
\* C28: a call in which the position after a node's offset was the length
\* of the node array returns (it is not killed), returns false, and hands
\* over no match of that node.
C28_PositionAtLengthIsCorruption ==
    trie_call.at_length # {} =>
        /\ trie_call.stop # "killed"
        /\ ~trie_call.ok
        /\ \A i \in 1..Len(trie_call.emitted) :
              trie_call.emitted[i].match_length \notin trie_call.at_length

\* What FindAllPrefixMatches gives on the input of the last call if the
\* read past the array does `beyond`.
AllMatches(beyond) ==
    GatherPrefixMatches(nodes_, trie_call.input, beyond)

\* C29: FindAllPrefixMatches gives its matches by strictly increasing
\* match_length, each between 1 and the length of the input; and
\* LongestPrefixMatch, when it returns true, gives the last of the matches
\* FindAllPrefixMatches gives on that input, or TrieMatch() if it gives
\* none.
C29_LongestIsLastOfAllMatches ==
    /\ trie_call.fn = "FindAllPrefixMatches" =>
          /\ \A i \in 1..Len(trie_call.matches) :
                /\ trie_call.matches[i].match_length >= 1
                /\ trie_call.matches[i].match_length <= Len(trie_call.input)
          /\ \A i, j \in 1..Len(trie_call.matches) :
                i < j => trie_call.matches[i].match_length <
                             trie_call.matches[j].match_length
    /\ (trie_call.fn = "LongestPrefixMatch" /\ trie_call.ok) =>
          \A beyond \in WordsRead(nodes_, trie_call.input) :
              AllMatches(beyond).ok =>
                  trie_call.longest_match =
                      LongestOf(AllMatches(beyond).emitted)

\* The position (from 1) of the first zero byte of the input of the last
\* call, or one past the input.
FirstZero ==
    LET zeros == {i \in 1..Len(trie_call.input) : trie_call.input[i] = 0}
    IN  IF zeros = {} THEN Len(trie_call.input) + 1
        ELSE CHOOSE i \in zeros : \A j \in zeros : i <= j

\* The traversal of the input of the last call as lines 564-591 lay it
\* down: the statement that ends it and the matches found up to there.
\* The word a read past the array gives is not looked at, so it has no
\* part in either.
Traversal == GatherPrefixMatches(nodes_, trie_call.input, WordRead(0))

\* C30: a call whose traversal comes to a zero byte, a label mismatch, a
\* position outside the node array (after the input byte or after the
\* node's offset) or the end of the input returns true with the matches
\* found up to there; a call on an empty trie returns true without
\* matches; and every match ends before the first zero byte.
C30_NormalTerminationSucceeds ==
    trie_call.fn # "none" =>
        /\ Traversal.stop \in {"zero", "mismatch", "exhausted", "corrupt",
                               "end"} =>
              /\ trie_call.ok
              /\ Len(trie_call.emitted) = Len(Traversal.emitted)
              /\ \A i \in 1..Len(trie_call.emitted) :
                    trie_call.emitted[i].match_length =
                        Traversal.emitted[i].match_length
              /\ trie_call.fn = "FindAllPrefixMatches" =>
                    trie_call.matches = trie_call.emitted
        /\ nodes_ = <<>> =>
              /\ trie_call.ok
              /\ trie_call.emitted = <<>>
              /\ trie_call.longest_match = NoTrieMatch
        /\ \A i \in 1..Len(trie_call.emitted) :
              trie_call.emitted[i].match_length < FirstZero


(***************************************************************************)
(* The reflective record on its own: a record of the entity-data schema    *)
(* receives a sequence of Set calls with known and unknown field names and *)
(* values of matching and other types (utils/flatbuffers.h).               *)
(***************************************************************************)
MaxSets == 3

\* The field names a caller passes: two of the schema, one unknown.
FieldNames == {"name", "count", "other"}

\* The values a caller passes.
FieldValues ==
    {StringValue(<<"a">>), StringValue(<<"b">>), IntValue(1), IntValue(2),
     BoolValue(TRUE)}

\* ReflectiveFlatbufferBuilder::NewRoot(): a record without stored values.
RecordInit ==
    /\ model_ = BaseModel
    /\ conversation = <<>>
    /\ response = DefaultResponse
    /\ RequestIdle
    /\ LocaleIdle
    /\ AnnotationIdle
    /\ RuleIdle
    /\ FactoryIdle
    /\ TrieIdle
    /\ ModelCallIdle
    /\ fields_ = <<>>
    /\ set_call = NoSetCall

\* One call record->Set(field_name, value).
SetField ==
    /\ set_call.n < MaxSets
    /\ \E field_name \in FieldNames, field_value \in FieldValues :
           LET r == Set(EntityDataSchema, fields_, field_name,
                        field_value)
           IN  /\ fields_' = r.fields
               /\ set_call' = [n |-> set_call.n + 1,
                               field_name |-> field_name,
                               value |-> field_value,
                               ok |-> r.ok, before |-> fields_]
    /\ UNCHANGED <<model_, conversation, response, request_vars,
                   locale_vars, annotation_vars, rule_vars, factory_vars,
                   trie_vars, model_call>>

RecordNext == SetField

RecordSpec == RecordInit /\ [][RecordNext]_vars

\* Two values are the same value: the same type and the same content.
SameValue(a, b) == a.type = b.type /\ a.v = b.v

\* Two records store the same values for the same fields.
SameFields(a, b) ==
    /\ DOMAIN a = DOMAIN b
    /\ \A f \in DOMAIN a : SameValue(a[f], b[f])

\* C31: after any sequence of Set calls every stored value has the type the
\* schema declares for its field; a Set that names an unknown field or
\* passes a value of another type returns false and leaves the stored
\* values as they were, and a Set that succeeds stores its value for its
\* field, in place of any earlier one, and leaves every other field as it
\* was.
C31_StoredValuesAreTyped ==
    /\ \A f \in DOMAIN fields_ :
           f \in DOMAIN EntityDataSchema
           /\ fields_[f].type = EntityDataSchema[f]
    /\ set_call.n > 0 =>
           LET known == set_call.field_name \in DOMAIN EntityDataSchema
               typed == known /\ EntityDataSchema[set_call.field_name]
                                    = set_call.value.type
           IN  /\ set_call.ok = typed
               /\ ~set_call.ok => SameFields(fields_, set_call.before)
               /\ set_call.ok =>
                      /\ DOMAIN fields_ = DOMAIN set_call.before
                                            \cup {set_call.field_name}
                      /\ SameValue(fields_[set_call.field_name],
                                   set_call.value)
                      /\ \A f \in DOMAIN set_call.before :
                             f # set_call.field_name =>
                                 SameValue(fields_[f], set_call.before[f])

\* A value was replaced by a later Set while another field kept its value,
\* and a Set of another type was refused on a record that holds values.
C31_Witness ==
    /\ set_call.n = MaxSets
    /\ set_call.ok
    /\ set_call.field_name \in DOMAIN set_call.before
    /\ ~SameValue(set_call.before[set_call.field_name], set_call.value)
    /\ DOMAIN set_call.before # {set_call.field_name}

\* A Set with a value of another type was refused on a record that holds a
\* value for that field.
C31_RefusedWitness ==
    /\ ~set_call.ok
    /\ set_call.field_name \in DOMAIN set_call.before
    /\ set_call.value.type # EntityDataSchema[set_call.field_name]


(***************************************************************************)
(* The exchange with the scoring model on its own: the input gathered from *)
(* the selected messages (SuggestActionsFromModel, lines 417-445) and the  *)
(* reading of the output tensors (ReadModelOutput, lines 315-390).         *)
(* Reference times are in milliseconds; a time difference of the model     *)
(* input is a number of seconds and is kept here in thousandths of a       *)
(* second, so that the division by second_in_ms loses nothing.             *)
(***************************************************************************)
MaxTimedMessages == 3

\* Reference times of a message: 0 is unknown; one is before the epoch.
ReferenceTimes == {-1000, 0, 1000, 2500}

UserIds == {0, 1}

TimedMessages ==
    [text : {<<"a">>, <<"a", "b">>}, user_id : UserIds,
     reference_time_ms_utc : ReferenceTimes]

TimedConversations == SeqsUpTo(TimedMessages, MaxTimedMessages) \ {<<>>}

Max(a, b) == IF a >= b THEN a ELSE b

\* A difference that is not floored.
TimeDiffSecs_Signed(reference_time_ms_utc, last) ==
    IF reference_time_ms_utc # 0 /\ last # 0
    THEN reference_time_ms_utc - last
    ELSE 0

\* Lines 430-436: the time difference of one message, given the reference
\* time of the last message before it that had one (0: none).
TimeDiffSecs(reference_time_ms_utc, last) ==
    IF reference_time_ms_utc # 0 /\ last # 0
    THEN Max(0, reference_time_ms_utc - last)
    ELSE 0

\* Lines 422-441: the loop over messages i .. size - 1 (1-based here).
RECURSIVE GatherInput(_, _, _, _)
GatherInput(messages, i, last, input) ==
    IF i > Len(messages) THEN input
    ELSE LET message == messages[i]
             time_diff_secs ==
                 TimeDiffSecs(message.reference_time_ms_utc, last)
             next_last == IF message.reference_time_ms_utc # 0
                          THEN message.reference_time_ms_utc ELSE last
         IN  GatherInput(messages, i + 1, next_last,
                 [context |-> Append(input.context, message.text),
                  user_ids |-> Append(input.user_ids, message.user_id),
                  time_diffs |-> Append(input.time_diffs, time_diff_secs)])

\* Lines 417-445: what SetupModelInput is given.
ModelInput(messages, n) ==
    GatherInput(messages, Len(messages) - n + 1, 0,
                [context |-> <<>>, user_ids |-> <<>>, time_diffs |-> <<>>])

ModelInit ==
    /\ model_ = BaseModel
    /\ conversation = <<>>
    /\ response = DefaultResponse
    /\ RequestIdle
    /\ LocaleIdle
    /\ AnnotationIdle
    /\ RuleIdle
    /\ FactoryIdle
    /\ TrieIdle
    /\ RecordIdle
    /\ model_call = [fn |-> "none"]

\* The input of one model step, for a conversation and a number of
\* selected messages that passed line 396.
SetupModelInput ==
    /\ model_call.fn = "none"
    /\ \E messages \in TimedConversations :
       \E n \in 1..Len(messages) :
           model_call' = [fn |-> "input", messages |-> messages,
                          selected |-> n,
                          input |-> ModelInput(messages, n)]
    /\ UNCHANGED <<model_, conversation, response, request_vars,
                   locale_vars, annotation_vars, rule_vars, factory_vars,
                   trie_vars, record_vars>>

\* The index in `messages` of the k-th selected message.
SelectedIndex(k) ==
    Len(model_call.messages) - model_call.selected + k

\* The selected messages before the k-th that have a reference time.
KnownBefore(k) ==
    {j \in 1..(k - 1) :
        model_call.messages[SelectedIndex(j)].reference_time_ms_utc # 0}

\* The greatest element of a non-empty set of numbers.
Greatest(S) == CHOOSE x \in S : \A y \in S : y <= x

\* The difference the k-th selected message is to have.
ExpectedTimeDiff(k) ==
    LET t == model_call.messages[SelectedIndex(k)].reference_time_ms_utc
    IN  IF t = 0 \/ KnownBefore(k) = {} THEN 0
        ELSE LET prev == SelectedIndex(Greatest(KnownBefore(k)))
                 d == t - model_call.messages[prev].reference_time_ms_utc
             IN  IF d < 0 THEN 0 ELSE d

\* C32: the model is given exactly num_messages context strings, author
\* ids and time differences, those of the selected messages in order; the
\* difference of a message is 0 when its reference time is 0 or no earlier
\* selected message has a reference time, and otherwise the time since the
\* most recent earlier selected message that has one, floored at 0; so no
\* difference is negative and the first is 0.
C32_TimeDiffsFlooredAtZero ==
    model_call.fn = "input" =>
        LET n == model_call.selected
            input == model_call.input
        IN  /\ Len(input.context) = n
            /\ Len(input.user_ids) = n
            /\ Len(input.time_diffs) = n
            /\ \A k \in 1..n :
                   /\ input.context[k]
                          = model_call.messages[SelectedIndex(k)].text
                   /\ input.user_ids[k]
                          = model_call.messages[SelectedIndex(k)].user_id
                   /\ input.time_diffs[k] = ExpectedTimeDiff(k)
                   /\ input.time_diffs[k] >= 0
            /\ input.time_diffs[1] = 0

\* Three selected messages: the second has no reference time, and the third
\* is earlier than the first, so that its difference is floored.
C32_Witness ==
    /\ model_call.fn = "input"
    /\ model_call.selected = 3
    /\ model_call.messages[SelectedIndex(1)].reference_time_ms_utc = 2500
    /\ model_call.messages[SelectedIndex(2)].reference_time_ms_utc = 0
    /\ model_call.messages[SelectedIndex(3)].reference_time_ms_utc = 1000
    /\ model_call.input.time_diffs = <<0, 0, 0>>


\* The request options.
Options == [ignore_min_replies_triggering_threshold : BOOLEAN]

\* The action classes of a model: two classes, each enabled or not, with a
\* minimum score.
OutputActionTypes ==
    {<<[name |-> "share_location", enabled |-> e1,
        min_triggering_score |-> s1],
       [name |-> "other", enabled |-> e2, min_triggering_score |-> s2]>> :
        e1 \in BOOLEAN, e2 \in BOOLEAN, s1 \in {5, 9}, s2 \in {5, 9}}

\* Models that differ in the outputs they declare, the triggering minimum
\* and the action classes.
OutputModels ==
    {[BaseModel EXCEPT !.min_smart_reply_triggering_score = t,
                       !.action_type = a,
                       !.tflite_model_spec =
                           [output_triggering_score |-> ot,
                            output_sensitive_topic_score |-> TRUE,
                            output_replies |-> orp,
                            output_actions_scores |-> oa]] :
        t \in {5, 9}, a \in OutputActionTypes, ot \in BOOLEAN,
        orp \in BOOLEAN, oa \in BOOLEAN}

\* The output tensors after a successful invocation.
OutputTensors ==
    {[kind |-> "ok", triggering_score |-> t, sensitive_topic_score |-> s,
      replies |-> <<[text |-> <<>>, score |-> 9],
                    [text |-> <<"o", "k">>, score |-> 8],
                    [text |-> <<"n", "o">>, score |-> 6]>>,
      actions_scores |-> c] :
        t \in {Tensor(FALSE, 0), Tensor(TRUE, 5), Tensor(TRUE, 8)},
        s \in {Tensor(FALSE, 0), Tensor(TRUE, 2), Tensor(TRUE, 8)},
        c \in {<<7, 5>>, <<4, 9>>}}

\* ReadModelOutput on the tensors of one invocation, into a fresh response.
ReadOutput ==
    /\ model_call.fn = "none"
    /\ \E m \in OutputModels, options \in Options, out \in OutputTensors :
           model_call' = [fn |-> "output", m |-> m, options |-> options,
                          out |-> out,
                          response |-> ReadModelOutput(m, options, out,
                                                       DefaultResponse)]
    /\ UNCHANGED <<model_, conversation, response, request_vars,
                   locale_vars, annotation_vars, rule_vars, factory_vars,
                   trie_vars, record_vars>>

ModelNext ==
    \/ SetupModelInput
    \/ ReadOutput

ModelSpec == ModelInit /\ [][ModelNext]_vars


(***************************************************************************)
(* Initialization and the entity-data builder of the rule pass.            *)
(***************************************************************************)
\* C33: an engine that was returned has an entity-data builder whenever a
\* compiled rule has entity data, so that no rule pass on it is aborted by
\* the check of the builder.
C33_EntityDataRulesHaveBuilder ==
    /\ (engine.returned = "engine"
        /\ model_buffer.first_rule_has_entity_data)
           => engine.object.entity_data_builder_
    /\ engine.rule_pass # "aborted"


(***************************************************************************)
(* The reads of the node array during a traversal.  offset(0) is read only *)
(* of a non-empty array (line 564); label, has_leaf and offset are read at *)
(* the position line 571 let through, which is below nodes_length_; the    *)
(* value of a match is read at the position after the node's offset (line  *)
(* 588).  `at_length` holds the match lengths at which that position was   *)
(* nodes_length_, and `emitted` the matches whose value was read.          *)
(***************************************************************************)
\* The positions at which the last call read a value, as far as they are
\* known to be at the end of the array: "length" for a read at
\* nodes_length_, "inside" for any other.  A call killed in its read was
\* reading at nodes_length_.
ValueReads ==
    {IF trie_call.emitted[k].match_length \in trie_call.at_length
     THEN "length" ELSE "inside" : k \in 1..Len(trie_call.emitted)}
        \cup (IF trie_call.stop = "killed" THEN {"length"} ELSE {})

\* C34: every read of the node array during a traversal is at a position
\* from 0 to nodes_length_ - 1, also the read of the value of a match
\* right after the node's offset was applied.
C34_ReadsWithinNodeArray == "length" \notin ValueReads


(***************************************************************************)
(* The number of selected messages past the check of line 655.             *)
(***************************************************************************)
\* The request went past the check that a message was selected.
PastNoMessagesCheck ==
    /\ pc # "gather"
    /\ conversation # <<>>
    /\ stopped_at # "no_messages"

\* C35: for a non-empty conversation, when the number of messages
\* computed for it passes the check that a message was selected, and once
\* the request is past that check, 1 <= num_messages <= number of messages;
\* so the messages size - num_messages .. size - 1 that the length and
\* locale scan, the low-confidence check and the model input read all
\* exist (1-based here: size - num_messages + 1 .. size), and the model
\* step is entered with num_messages <= size.
C35_NumMessagesWithinConversation ==
    /\ (/\ conversation # <<>>
        /\ ~NoMessagesSelected(NumMessages(model_, conversation))) =>
          /\ 1 <= NumMessages(model_, conversation)
          /\ NumMessages(model_, conversation) <= Len(conversation)
    /\ PastNoMessagesCheck =>
          /\ 1 <= num_messages
          /\ num_messages <= Len(conversation)
          /\ \A i \in (Len(conversation) - num_messages + 1)
                          ..Len(conversation) :
                 i \in DOMAIN conversation
    /\ calls.model > 0 => num_messages <= Len(conversation)
    /\ (calls.annotations > 0 \/ calls.low_confidence > 0
        \/ calls.model > 0) => PastNoMessagesCheck

\* Witness of C35: the maximal history is longer than the conversation of
\* two messages, both are selected, and the request went on to the model
\* step.
C35_Witness ==
    /\ PastNoMessagesCheck
    /\ model_.max_conversation_history_length > Len(conversation)
    /\ Len(conversation) = 2
    /\ num_messages = Len(conversation)
    /\ calls.model > 0

\* More of C35: the history is limited to one message of a conversation
\* of two, and the request went on to the model step.
C35_ClampedWitness ==
    /\ PastNoMessagesCheck
    /\ model_.max_conversation_history_length = 1
    /\ Len(conversation) = 2
    /\ num_messages = 1
    /\ calls.model > 0


(***************************************************************************)
(* The model step without a model, or with one that fails.                 *)
(***************************************************************************)
\* The model step ran and gave no output: there is no executor, or the
\* interpreter was not invoked (it was not built, or its tensors were not
\* allocated), or no sensitivity score was read (the invocation failed, or
\* the triggering or the sensitivity tensor could not be read; every model
\* here declares both outputs, and a score that was read is not NoScore).
ModelGaveNoOutput ==
    /\ calls.model > 0
    /\ \/ ~model_.has_model_executor
       \/ calls.invoke = 0
       \/ response.sensitivity_score = NoScore

\* The actions of the rule pass on the last message.
RulePassOfRequest ==
    SuggestActionsFromRules(model_, rules_,
                            conversation[Len(conversation)].text)

\* C36: when there is no scoring model, or the interpreter cannot be built,
\* its tensors cannot be allocated, the invocation fails or the triggering
\* or sensitivity output cannot be read, the model step appends no action
\* and the request is not ended by it: the rule pass runs next, a rule
\* pass that succeeds makes the gathering succeed with the actions of the
\* annotation pass followed by those of the rule pass, and the ranker is
\* run on them.
C36_FailingModelIsNoAbort ==
    ModelGaveNoOutput =>
        /\ ~response.output_filtered_sensitivity
        /\ stopped_at \in {"running", "complete", "rules_failed"}
        /\ \A i \in 1..Len(response.actions) :
              response.actions[i].origin # "model"
        /\ pc = "rules" =>
              /\ gather_result = "none"
              /\ response.actions =
                     SuggestActionsFromAnnotations(model_, conversation)
        /\ pc \in {"gathered", "done"} =>
              /\ calls.rules = 1
              /\ RulePassOfRequest.ok =>
                     /\ stopped_at = "complete"
                     /\ gather_result = "true"
        /\ (pc = "gathered" /\ RulePassOfRequest.ok) =>
              response.actions =
                  SuggestActionsFromAnnotations(model_, conversation)
                      \o RulePassOfRequest.actions
        /\ (pc = "done" /\ RulePassOfRequest.ok) =>
              /\ calls.ranker = 1
              /\ rank_result \in {"true", "false"}

\* Witness of C36: without an executor, the request ended with success and
\* the action of the rule.
C36_Witness ==
    /\ ModelGaveNoOutput
    /\ ~model_.has_model_executor
    /\ pc = "done"
    /\ gather_result = "true"
    /\ rank_result = "true"
    /\ Len(response.actions) = 1
    /\ response.actions[1].origin = "rule"

\* The output could not be read after a successful invocation, and the
\* request ended with success and the actions of the annotation pass and
\* of the rule pass.
C36_UnreadOutputWitness ==
    /\ ModelGaveNoOutput
    /\ calls.invoke = 1
    /\ response.triggering_score # NoScore
    /\ pc = "done"
    /\ rank_result = "true"
    /\ \E i, j \in 1..Len(response.actions) :
          /\ response.actions[i].origin = "annotation"
          /\ response.actions[j].origin = "rule"


(***************************************************************************)
(* What is read from the output of the model.  A reading is one call of    *)
(* ReadModelOutput in which the tensors the model declares for the         *)
(* triggering and the sensitivity score were read.                         *)
(***************************************************************************)
\* The tensors of the scores the model declares are valid.
ScoresRead ==
    LET spec == model_call.m.tflite_model_spec
    IN  /\ spec.output_triggering_score =>
               model_call.out.triggering_score.valid
        /\ spec.output_sensitive_topic_score =>
               model_call.out.sensitive_topic_score.valid

\* The last call read the scores and the output was not filtered for
\* sensitivity.
OutputNotFiltered ==
    /\ model_call.fn = "output"
    /\ ScoresRead
    /\ ~model_call.response.output_filtered_sensitivity

\* The actions of the response with the type of a smart reply, and those of
\* the class i.
ReplyActions ==
    SelectSeq(model_call.response.actions,
              LAMBDA a : a.type = model_call.m.smart_reply_action_type)

ClassActions(i) ==
    SelectSeq(model_call.response.actions,
              LAMBDA a : a.type = model_call.m.action_type[i].name)

\* The replies of the output with a text, in order.
RepliesWithText ==
    SelectSeq(model_call.out.replies, LAMBDA r : Len(r.text) > 0)

\* The triggering score reaches the minimum, or the option says to ignore
\* the minimum.
RepliesTrigger ==
    \/ model_call.out.triggering_score.value
           >= model_call.m.min_smart_reply_triggering_score
    \/ model_call.options.ignore_min_replies_triggering_threshold

\* C37: when the output is not filtered for sensitivity, the flag
\* output_filtered_min_triggering_score is set exactly when the triggering
\* score is below the minimum and the option to ignore the minimum is not
\* set; smart replies are appended only when the flag is not set, one for
\* each reply with a text, in order, with the reply's text and score; and a
\* suggestion for class i is appended exactly when the class is enabled and
\* its score is at least its minimum, whatever the triggering score.  The
\* parts on the triggering score are for a model that declares it, those on
\* replies and classes for a model that declares these outputs.
C37_RepliesAndClassesFiltered ==
    OutputNotFiltered =>
        LET spec == model_call.m.tflite_model_spec
            resp == model_call.response
        IN  /\ spec.output_triggering_score =>
                  /\ resp.output_filtered_min_triggering_score
                         = ~RepliesTrigger
                  /\ ReplyActions # <<>> => RepliesTrigger
            /\ Len(ReplyActions) \in {0, Len(RepliesWithText)}
            /\ (spec.output_replies
                /\ ~resp.output_filtered_min_triggering_score)
                   => Len(ReplyActions) = Len(RepliesWithText)
            /\ \A k \in 1..Len(ReplyActions) :
                   /\ ReplyActions[k].response_text
                          = RepliesWithText[k].text
                   /\ ReplyActions[k].score = RepliesWithText[k].score
            /\ spec.output_actions_scores =>
                   \A i \in 1..Len(model_call.m.action_type) :
                       LET class == model_call.m.action_type[i]
                           triggers ==
                               /\ class.enabled
                               /\ model_call.out.actions_scores[i]
                                      >= class.min_triggering_score
                       IN  /\ Len(ClassActions(i))
                                  = IF triggers THEN 1 ELSE 0
                           /\ triggers =>
                                  ClassActions(i)[1].score
                                      = model_call.out.actions_scores[i]

\* Witness of C37: the triggering score is below the minimum and the option
\* is not set, so no reply was appended, while a class whose score equals
\* its minimum was.
C37_Witness ==
    /\ OutputNotFiltered
    /\ model_call.m.tflite_model_spec.output_triggering_score
    /\ model_call.m.tflite_model_spec.output_replies
    /\ model_call.m.tflite_model_spec.output_actions_scores
    /\ model_call.response.output_filtered_min_triggering_score
    /\ ReplyActions = <<>>
    /\ Len(ClassActions(2)) = 1
    /\ model_call.out.actions_scores[2]
           = model_call.m.action_type[2].min_triggering_score

\* The option to ignore the minimum let the replies through though the
\* triggering score is below the minimum; the reply without text is not
\* among them.
C37_IgnoredMinimumWitness ==
    /\ OutputNotFiltered
    /\ model_call.m.tflite_model_spec.output_triggering_score
    /\ model_call.options.ignore_min_replies_triggering_threshold
    /\ model_call.out.triggering_score.value
           < model_call.m.min_smart_reply_triggering_score
    /\ Len(ReplyActions) = 2
    /\ Len(model_call.out.replies) = 3


\* A rule pass that returned false after the action spec before the failing
\* capturing group had appended its action: the action is in the response
\* the pass leaves.
C26_FailedPassWitness ==
    /\ requests # <<>>
    /\ requests[1].pc = "done"
    /\ requests[1].result = "false"
    /\ Len(Appended(1)) = 1
    /\ Appended(1)[1].type = "rule_a"

=============================================================================
